---- MODULE Spec2Model ----
(***************************************************************************)
(* Model of the symfose audio core (src/src/audio.rs): the AudioEngine     *)
(* facade, the note and song schedulers and the scheduled render walk; of  *)
(* the key chords (src/src/input.rs); and of the playback state machine of *)
(* the GUI (src/src/main.rs).                                              *)
(*                                                                         *)
(* Number representation.  f32 volumes and gains are fixed-point records   *)
(* [nan, v] with v in hundredths (0.68 is F(68)); NaN is kept as a value   *)
(* because f32::clamp passes it through.  Beats, tempo and seconds are     *)
(* exact rationals <<n, d>> with d > 0; frame conversion rounds half away  *)
(* from zero as f32::round / f64::round do.  The binary rounding of the    *)
(* f32 intermediates is not modelled.  usize::MAX is USIZE_MAX; only an     *)
(* infinite time reaches it here.  The times of the GUI are integers in    *)
(* hundredths of a second.                                                 *)
(***************************************************************************)
EXTENDS Integers, Sequences, FiniteSets, TLC

VARIABLES
  phase,              \* "start" | "running" | "failed": outcome of AudioEngine::new
  engine,             \* the AudioEngine fields (and the stream's sample rate)
  mixer,              \* number of sources the output mixer is currently playing
  lastCall,           \* the last facade call: operation, arguments, outcome
  requested_profile,  \* history: name of construction / last Ok set_active_profile
  probe,              \* the last direct call of a scheduling function (SchedSpec)
  renders,            \* the render calls in progress, by caller (RenderSpec)
  app,                \* the PianoApp fields (AppSpec)
  clock,              \* Instant::now(), in hundredths of a second (AppSpec)
  gui                 \* what the last GUI handler handed to the audio engine, and
                      \* history: the notes pressed since the tutorial last advanced

vars == <<phase, engine, mixer, lastCall, requested_profile, probe, renders, app, clock, gui>>

(***************************************************************************)
(* Bounds                                                                  *)
(***************************************************************************)
MaxMixer == 2
MaxEvents == 2
MaxActions == 3
MaxWalkActions == 2
MaxDigits == 3

(***************************************************************************)
(* Arithmetic helpers                                                      *)
(***************************************************************************)
Min(a, b) == IF a <= b THEN a ELSE b
Max(a, b) == IF a >= b THEN a ELSE b

\* clamp on integers (u8::clamp, Ord::clamp)
clamp(x, lo, hi) == Min(Max(x, lo), hi)

\* round(n / d) for n >= 0, d > 0, half away from zero
RoundDiv(n, d) == (n \div d) + (IF 2 * (n % d) >= d THEN 1 ELSE 0)

\* f32 values: fixed-point or NaN
F(x) == [nan |-> FALSE, v |-> x]
NaN == [nan |-> TRUE, v |-> 0]

\* f32::clamp(self, lo, hi): NaN stays NaN
f32_clamp(x, lo, hi) == IF x.nan THEN x ELSE F(Min(Max(x.v, lo), hi))

\* f32 multiplication (scales multiply); NaN is absorbing
f32_mul(x, y) == IF x.nan \/ y.nan THEN NaN ELSE F(x.v * y.v)

\* (0.0..=2.5).contains(x) in hundredths: false for NaN
InUnitRange(x) == ~x.nan /\ 0 <= x.v /\ x.v <= 250

\* rationals <<n, d>>, d > 0
QMul(a, b) == <<a[1] * b[1], a[2] * b[2]>>
QDiv(a, b) == <<a[1] * b[2], a[2] * b[1]>>
QLeq(a, b) == a[1] * b[2] <= b[1] * a[2]
QMax(a, b) == IF QLeq(b, a) THEN a ELSE b
QPos(a) == a[1] > 0

(***************************************************************************)
(* Result values                                                           *)
(***************************************************************************)
Ok(v) == [ok |-> TRUE, error |-> "", value |-> v]
Err(e) == [ok |-> FALSE, error |-> e, value |-> <<>>]

(***************************************************************************)
(* Frame conversion and MIDI actions                                       *)
(***************************************************************************)
\* variant of ms_to_frames: the floor of one frame is missing
ms_to_frames_unfloored(milliseconds, sample_rate) ==
  RoundDiv(milliseconds * sample_rate, 1000)

ms_to_frames(milliseconds, sample_rate) ==
  Max(RoundDiv(milliseconds * sample_rate, 1000), 1)

\* usize::MAX.  It stands for 2^64 - 1 (2^32 - 1 on a 32-bit target), written
\* as the largest integer the model checker holds; every frame count computed
\* from finite times in this module is far below it.
USIZE_MAX == 2147483647

\* f32 +infinity as a rational: a positive numerator over 0
Infinite(q) == q[2] = 0

\* variant of seconds_to_frames: truncation instead of rounding
seconds_to_frames_truncating(seconds, sample_rate) ==
  LET s == QMax(seconds, <<0, 1>>)
  IN  IF Infinite(s) THEN USIZE_MAX
      ELSE Max((s[1] * sample_rate) \div s[2], 0)

\* the cast of a float to usize saturates: +infinity becomes usize::MAX
seconds_to_frames(seconds, sample_rate) ==
  LET s == QMax(seconds, <<0, 1>>)
  IN  IF Infinite(s) THEN USIZE_MAX
      ELSE Max(RoundDiv(s[1] * sample_rate, s[2]), 0)

saturating_add(a, b) == IF a >= USIZE_MAX - b THEN USIZE_MAX ELSE a + b

NoteOn(key, velocity) == [type |-> "NoteOn", key |-> key, velocity |-> velocity]
NoteOff(key) == [type |-> "NoteOff", key |-> key]
ScheduledAction(frame, action) == [frame |-> frame, action |-> action]

\* variant of sort_order: NoteOn before NoteOff
sort_order_note_on_first(action) == IF action.type = "NoteOn" THEN 0 ELSE 1

sort_order(action) == IF action.type = "NoteOff" THEN 0 ELSE 1

\* the comparator of actions.sort_by: frame, then sort_order
action_leq(left, right) ==
  \/ left.frame < right.frame
  \/ /\ left.frame = right.frame
     /\ sort_order(left.action) <= sort_order(right.action)

\* Vec::sort_by is a stable sort: an element goes after every element that
\* does not compare greater than it
RECURSIVE sort_insert(_, _)
sort_insert(sorted, entry) ==
  IF sorted = <<>> THEN <<entry>>
  ELSE IF action_leq(sorted[Len(sorted)], entry) THEN Append(sorted, entry)
  ELSE Append(sort_insert(SubSeq(sorted, 1, Len(sorted) - 1), entry),
              sorted[Len(sorted)])

RECURSIVE sort_by(_)
sort_by(actions) ==
  IF actions = <<>> THEN <<>>
  ELSE sort_insert(sort_by(SubSeq(actions, 1, Len(actions) - 1)),
                   actions[Len(actions)])

\* variant of retain: an action beyond the end is moved to total_frames
\* instead of being removed
retain_clamping(actions, total_frames) ==
  [i \in DOMAIN actions |->
     IF actions[i].frame <= total_frames THEN actions[i]
     ELSE ScheduledAction(total_frames, actions[i].action)]

\* actions.retain(|entry| entry.frame <= total_frames)
retain(actions, total_frames) ==
  SelectSeq(actions, LAMBDA entry : entry.frame <= total_frames)

(***************************************************************************)
(* Synthesizer construction.  The synthesizer is described by its settings *)
(* and the channel set-up messages sent to it.  Synthesizer::new is the    *)
(* rustysynth library: it rejects a polyphony outside 8..=256.             *)
(***************************************************************************)
SampleRateError == "sample rate is outside rustysynth range 16000..=192000"

\* variant of build_synthesizer: the range check excludes its end points
build_synthesizer_exclusive(profile, sample_rate) ==
  IF ~(16000 < sample_rate /\ sample_rate < 192000)
  THEN Err(SampleRateError)
  ELSE Ok([sample_rate |-> sample_rate,
           maximum_polyphony |-> profile.profile.maximum_polyphony,
           enable_reverb_and_chorus |-> profile.profile.enable_reverb_and_chorus,
           soundfont |-> profile.soundfont,
           messages |-> <<>>])

build_synthesizer(profile, sample_rate) ==
  IF ~(16000 <= sample_rate /\ sample_rate <= 192000)
  THEN Err(SampleRateError)
  ELSE IF ~(8 <= profile.profile.maximum_polyphony
            /\ profile.profile.maximum_polyphony <= 256)
  THEN Err("failed to create soundfont synthesizer")
  ELSE LET channel == profile.profile.channel
       IN  Ok([sample_rate |-> sample_rate,
               maximum_polyphony |-> profile.profile.maximum_polyphony,
               enable_reverb_and_chorus |-> profile.profile.enable_reverb_and_chorus,
               soundfont |-> profile.soundfont,
               messages |-> << <<channel, 176, 0, profile.profile.bank>>,
                               <<channel, 176, 32, 0>>,
                               <<channel, 192, profile.profile.preset, 0>>,
                               <<channel, 176, 7, 127>>,
                               <<channel, 176, 11, 127>> >>])

\* apply_midi_action: the message the synthesizer receives
apply_midi_action(channel, action, cursor) ==
  [kind |-> "apply", channel |-> channel, action |-> action, cursor |-> cursor]

\* synth.render(&mut left[from..to], &mut right[from..to])
synth_render(from, to) == [kind |-> "render", from |-> from, to |-> to]

\* Synthesizer::new: no key is held.  The synthesizer is described by the set
\* of keys it holds; note_on adds a key and note_off releases it
new_voices == {}
note_on(voices, key) == voices \cup {key}
note_off(voices, key) == voices \ {key}

\* the state of the synthesizer after it received an action
voices_after(voices, action) ==
  IF action.type = "NoteOn" THEN note_on(voices, action.key)
                            ELSE note_off(voices, action.key)

\* what synth.render writes into left[from..to] and right[from..to]: the keys
\* held while these frames are rendered
segment(from, to, voices) == [from |-> from, to |-> to, voices |-> voices]

\* the inner while loop: every action at exactly this frame, in order
RECURSIVE apply_group(_, _, _, _, _, _)
apply_group(actions, action_index, frame, cursor, channel, steps) ==
  IF action_index <= Len(actions) /\ actions[action_index].frame = frame
  THEN apply_group(actions, action_index + 1, frame, cursor, channel,
                   Append(steps,
                          apply_midi_action(channel, actions[action_index].action, cursor)))
  ELSE [action_index |-> action_index, steps |-> steps]

\* variant of render_walk: the actions of a frame are applied before the
\* synthesizer has rendered up to that frame
RECURSIVE render_walk_apply_first(_, _, _, _, _)
render_walk_apply_first(actions, action_index, cursor, channel, steps) ==
  IF action_index > Len(actions) THEN [cursor |-> cursor, steps |-> steps]
  ELSE LET frame == actions[action_index].frame
           group == apply_group(actions, action_index, frame, cursor, channel, steps)
           cursor1 == IF frame > cursor THEN frame ELSE cursor
           rendered == IF frame > cursor
                       THEN Append(group.steps, synth_render(cursor, frame))
                       ELSE group.steps
       IN  render_walk_apply_first(actions, group.action_index, cursor1, channel,
                                   rendered)

\* the outer while loop (action_index is 1-based here)
RECURSIVE render_walk(_, _, _, _, _)
render_walk(actions, action_index, cursor, channel, steps) ==
  IF action_index > Len(actions) THEN [cursor |-> cursor, steps |-> steps]
  ELSE LET frame == actions[action_index].frame
           rendered == IF frame > cursor
                       THEN Append(steps, synth_render(cursor, frame))
                       ELSE steps
           cursor1 == IF frame > cursor THEN frame ELSE cursor
           group == apply_group(actions, action_index, frame, cursor1, channel, rendered)
       IN  render_walk(actions, group.action_index, cursor1, channel, group.steps)

\* gain = (master_volume * instrument_gain_multiplier).clamp(0.0, 2.5); the
\* product of two values in hundredths is in ten-thousandths
render_gain(profile, master_volume) ==
  f32_clamp(f32_mul(master_volume, profile.profile.instrument_gain_multiplier),
            0, 25000)

\* variant of interleave: the clamp of the samples is missing
interleave_unclamped(left, right, gain, total_frames) ==
  [i \in 1..(2 * total_frames) |->
     IF i % 2 = 1 THEN f32_mul(left[(i + 1) \div 2], gain)
                  ELSE f32_mul(right[i \div 2], gain)]

\* the loop that fills the interleaved vector: for each frame the left sample
\* and then the right sample, each multiplied by the gain and clamped to
\* [-1.0, 1.0]; a raw value in hundredths times the gain is in millionths
interleave(left, right, gain, total_frames) ==
  [i \in 1..(2 * total_frames) |->
     IF i % 2 = 1 THEN f32_clamp(f32_mul(left[(i + 1) \div 2], gain),
                                 0 - 1000000, 1000000)
                  ELSE f32_clamp(f32_mul(right[i \div 2], gain),
                                 0 - 1000000, 1000000)]

\* Vec::new(): no samples
EmptySamples == [len |-> 0, built |-> FALSE, steps |-> <<>>]

\* variant of render_scheduled_actions: the synthesizer is built before the
\* test for an empty render
render_scheduled_actions_build_first(profile, sample_rate, total_frames, actions, master_volume) ==
  LET synth == build_synthesizer(profile, sample_rate)
  IN  IF ~synth.ok THEN Err(synth.error)
      ELSE IF total_frames = 0
      THEN Ok([len |-> 0, built |-> TRUE, steps |-> <<>>])
      ELSE LET sorted == sort_by(retain(actions, total_frames))
               walk == render_walk(sorted, 1, 0, profile.profile.channel, <<>>)
           IN  Ok([len |-> total_frames * 2,
                   built |-> TRUE,
                   synth |-> synth.value,
                   sorted |-> sorted,
                   steps |-> IF walk.cursor < total_frames
                             THEN Append(walk.steps,
                                         synth_render(walk.cursor, total_frames))
                             ELSE walk.steps,
                   gain |-> render_gain(profile, master_volume)])

\* variant of render_scheduled_actions: the render of the frames after the
\* last action is missing
render_scheduled_actions_no_tail(profile, sample_rate, total_frames, actions, master_volume) ==
  IF total_frames = 0 THEN Ok(EmptySamples)
  ELSE LET sorted == sort_by(retain(actions, total_frames))
           synth == build_synthesizer(profile, sample_rate)
       IN  IF ~synth.ok THEN Err(synth.error)
           ELSE Ok([len |-> total_frames * 2,
                    built |-> TRUE,
                    synth |-> synth.value,
                    sorted |-> sorted,
                    steps |-> render_walk(sorted, 1, 0, profile.profile.channel,
                                          <<>>).steps,
                    gain |-> render_gain(profile, master_volume)])

render_scheduled_actions(profile, sample_rate, total_frames, actions, master_volume) ==
  IF total_frames = 0 THEN Ok(EmptySamples)
  ELSE LET retained == retain(actions, total_frames)
           sorted == sort_by(retained)
           synth == build_synthesizer(profile, sample_rate)
       IN  IF ~synth.ok THEN Err(synth.error)
           ELSE LET channel == profile.profile.channel
                    walk == render_walk(sorted, 1, 0, channel, <<>>)
                    steps == IF walk.cursor < total_frames
                             THEN Append(walk.steps,
                                         synth_render(walk.cursor, total_frames))
                             ELSE walk.steps
                    gain == render_gain(profile, master_volume)
                IN  Ok([len |-> total_frames * 2,
                        built |-> TRUE,
                        synth |-> synth.value,
                        sorted |-> sorted,
                        steps |-> steps,
                        gain |-> gain])

\* the arguments a scheduler hands to render_scheduled_actions
RenderCall(profile, sample_rate, total_frames, actions, master_volume) ==
  [called |-> TRUE, profile |-> profile, sample_rate |-> sample_rate,
   total_frames |-> total_frames, actions |-> actions,
   master_volume |-> master_volume]

NoRenderCall == [called |-> FALSE]

(***************************************************************************)
(* Note scheduler                                                          *)
(***************************************************************************)
\* variant of note_schedule: the 40 ms floor of the hold time is missing
note_schedule_no_hold_floor(midi_note, velocity, note_duration_ms, release_duration_ms, sample_rate) ==
  LET hold_frames == ms_to_frames(note_duration_ms, sample_rate)
      release_frames == ms_to_frames(Max(release_duration_ms, 160), sample_rate)
  IN  [total_frames |-> saturating_add(hold_frames, release_frames),
       actions |-> << ScheduledAction(0, NoteOn(midi_note, clamp(velocity, 1, 127))),
                      ScheduledAction(hold_frames, NoteOff(midi_note)) >>]

\* the schedule render_soundfont_note_samples builds before rendering
note_schedule(midi_note, velocity, note_duration_ms, release_duration_ms, sample_rate) ==
  LET hold_frames == ms_to_frames(Max(note_duration_ms, 40), sample_rate)
      release_frames == ms_to_frames(Max(release_duration_ms, 160), sample_rate)
  IN  [total_frames |-> saturating_add(hold_frames, release_frames),
       actions |-> << ScheduledAction(0, NoteOn(midi_note, clamp(velocity, 1, 127))),
                      ScheduledAction(hold_frames, NoteOff(midi_note)) >>]

render_soundfont_note_samples(profile, midi_note, velocity, note_duration_ms, release_duration_ms, sample_rate, master_volume) ==
  LET sched == note_schedule(midi_note, velocity, note_duration_ms,
                             release_duration_ms, sample_rate)
  IN  [call |-> RenderCall(profile, sample_rate, sched.total_frames,
                           sched.actions, master_volume),
       result |-> render_scheduled_actions(profile, sample_rate, sched.total_frames,
                                           sched.actions, master_volume)]

(***************************************************************************)
(* Song scheduler.  A song is [meta |-> [tempo_bpm, default_velocity],     *)
(* events |-> sequence of [at_beats, duration_beats, notes, velocity]];    *)
(* Option<u8> is <<>> (None) or <<v>> (Some(v)).                           *)
(***************************************************************************)
\* variant of track_max_frame: the last note-off frame instead of the maximum
track_max_frame_last(max_frame, note_off_frame) == note_off_frame

\* max_frame = max_frame.max(note_off_frame)
track_max_frame(max_frame, note_off_frame) == Max(max_frame, note_off_frame)

\* variant of event_velocity: the clamp is missing
event_velocity_unclamped(event, song) ==
  IF event.velocity = <<>> THEN song.meta.default_velocity ELSE event.velocity[1]

\* event.velocity.unwrap_or(song.meta.default_velocity).clamp(1, 127)
event_velocity(event, song) ==
  clamp(IF event.velocity = <<>> THEN song.meta.default_velocity
                                 ELSE event.velocity[1],
        1, 127)

\* variant of queue_event_notes: the NoteOff is queued at the start frame
RECURSIVE queue_event_notes_off_at_start(_, _, _, _, _, _)
queue_event_notes_off_at_start(notes, i, start_frame, event_duration_frames, velocity, acc) ==
  IF i > Len(notes) THEN acc
  ELSE queue_event_notes_off_at_start(
         notes, i + 1, start_frame, event_duration_frames, velocity,
         [actions |-> acc.actions
                      \o << ScheduledAction(start_frame, NoteOn(notes[i], velocity)),
                            ScheduledAction(start_frame, NoteOff(notes[i])) >>,
          max_frame |-> track_max_frame(acc.max_frame, start_frame)])

\* the inner for loop over event.notes
RECURSIVE queue_event_notes(_, _, _, _, _, _)
queue_event_notes(notes, i, start_frame, event_duration_frames, velocity, acc) ==
  IF i > Len(notes) THEN acc
  ELSE LET note_off_frame == saturating_add(start_frame, event_duration_frames)
       IN  queue_event_notes(notes, i + 1, start_frame, event_duration_frames, velocity,
             [actions |-> acc.actions
                          \o << ScheduledAction(start_frame, NoteOn(notes[i], velocity)),
                                ScheduledAction(note_off_frame, NoteOff(notes[i])) >>,
              max_frame |-> track_max_frame(acc.max_frame, note_off_frame)])

\* the for loop over song.events
RECURSIVE queue_song_events(_, _, _, _, _, _)
queue_song_events(song, i, beat_seconds, fallback_duration_frames, sample_rate, acc) ==
  IF i > Len(song.events) THEN acc
  ELSE LET event == song.events[i]
       IN  IF event.notes = <<>>
           THEN queue_song_events(song, i + 1, beat_seconds,
                                  fallback_duration_frames, sample_rate, acc)
           ELSE LET start_seconds == QMul(QMax(event.at_beats, <<0, 1>>), beat_seconds)
                    start_frame == seconds_to_frames(start_seconds, sample_rate)
                    event_duration_frames ==
                      IF QPos(event.duration_beats)
                      THEN seconds_to_frames(
                             QMax(QMul(event.duration_beats, beat_seconds), <<4, 100>>),
                             sample_rate)
                      ELSE fallback_duration_frames
                    velocity == event_velocity(event, song)
                IN  queue_song_events(song, i + 1, beat_seconds,
                                      fallback_duration_frames, sample_rate,
                                      queue_event_notes(event.notes, 1, start_frame,
                                                        event_duration_frames,
                                                        velocity, acc))

\* the schedule render_soundfont_song_samples builds before rendering
song_schedule(song, sample_rate, default_note_duration_ms, release_duration_ms) ==
  LET beat_seconds == QDiv(<<60, 1>>, QMax(song.meta.tempo_bpm, <<1, 1>>))
      fallback_duration_frames ==
        ms_to_frames(Max(default_note_duration_ms, 40), sample_rate)
      release_frames == ms_to_frames(Max(release_duration_ms, 240), sample_rate)
      queued == queue_song_events(song, 1, beat_seconds, fallback_duration_frames,
                                  sample_rate, [actions |-> <<>>, max_frame |-> 0])
  IN  [actions |-> queued.actions,
       max_frame |-> queued.max_frame,
       total_frames |-> saturating_add(queued.max_frame, release_frames)]

render_soundfont_song_samples(profile, song, sample_rate, master_volume, default_note_duration_ms, release_duration_ms) ==
  IF song.events = <<>> THEN [call |-> NoRenderCall, result |-> Ok(EmptySamples)]
  ELSE LET sched == song_schedule(song, sample_rate, default_note_duration_ms,
                                  release_duration_ms)
       IN  IF sched.actions = <<>>
           THEN [call |-> NoRenderCall, result |-> Ok(EmptySamples)]
           ELSE [call |-> RenderCall(profile, sample_rate, sched.total_frames,
                                     sched.actions, master_volume),
                 result |-> render_scheduled_actions(profile, sample_rate,
                                                     sched.total_frames,
                                                     sched.actions, master_volume)]

(***************************************************************************)
(* Profile store                                                           *)
(***************************************************************************)
Some(x) == <<x>>
None == <<>>

COMMON_SOUNDFONT_PATHS ==
  << "/usr/share/sounds/sf2/FluidR3_GM.sf2",
     "/usr/share/sounds/sf2/TimGM6mb.sf2",
     "/usr/share/sounds/sf2/default-GM.sf2",
     "/usr/share/soundfonts/FluidR3_GM.sf2",
     "/usr/share/sf2/FluidR3_GM.sf2" >>

\* config.rs: the two profiles of the default configuration
default_instrument_profiles ==
  [name \in {"piano", "acoustic_guitar"} |->
     IF name = "piano"
     THEN [soundfont_path |-> "res/soundfonts/piano.sf2", bank |-> 0, preset |-> 0,
           channel |-> 0, maximum_polyphony |-> 128,
           enable_reverb_and_chorus |-> TRUE, instrument_gain_multiplier |-> F(100)]
     ELSE [soundfont_path |-> "res/soundfonts/piano.sf2", bank |-> 0, preset |-> 24,
           channel |-> 0, maximum_polyphony |-> 96,
           enable_reverb_and_chorus |-> TRUE, instrument_gain_multiplier |-> F(110)]]

\* fs is the file system: the paths that exist, can be opened, and parse as SF2
resolve_soundfont_path(configured_path, fs) ==
  IF configured_path \in fs.existing
  THEN Some([path |-> configured_path, used_fallback |-> FALSE])
  ELSE LET found == {i \in DOMAIN COMMON_SOUNDFONT_PATHS :
                       COMMON_SOUNDFONT_PATHS[i] \in fs.existing}
       IN  IF found = {} THEN None
           ELSE Some([path |-> COMMON_SOUNDFONT_PATHS[
                                 CHOOSE i \in found : \A j \in found : i <= j],
                      used_fallback |-> TRUE])

load_soundfont(profile_name, profile, fs) ==
  LET resolved == resolve_soundfont_path(profile.soundfont_path, fs)
  IN  IF resolved = None THEN Err("missing SoundFont")
      ELSE IF resolved[1].path \notin fs.readable THEN Err("failed opening SoundFont")
      ELSE IF resolved[1].path \notin fs.parsable THEN Err("failed parsing SoundFont")
      ELSE Ok([soundfont |-> resolved[1].path, profile |-> profile])

load_soundfont_profile(profile_name, profile, fs) ==
  load_soundfont(profile_name, profile, fs)

(***************************************************************************)
(* Engine facade.  Each operation is a function of the engine value self   *)
(* and returns the engine afterwards, the buffers it added to the mixer    *)
(* and what it returned.                                                   *)
(***************************************************************************)
NoEngine ==
  [stream |-> [sample_rate |-> 0],
   profiles |-> [name \in {} |-> 0],
   active_profile_name |-> "",
   default_volume |-> F(0),
   default_duration_ms |-> 0,
   release_duration_ms |-> 0]

\* variant of new: the check that the active name is a loaded profile is missing
new_unchecked(config, env) ==
  IF ~env.device_available THEN Err("no audio output device available")
  ELSE IF ~env.stream_opens THEN Err("failed to open audio stream")
  ELSE
    LET loaded == [name \in DOMAIN config.instrument_profiles |->
                     load_soundfont_profile(name, config.instrument_profiles[name],
                                            env.fs)]
    IN  IF \E name \in DOMAIN loaded : ~loaded[name].ok
        THEN Err(loaded[CHOOSE name \in DOMAIN loaded : ~loaded[name].ok].error)
        ELSE Ok([stream |-> [sample_rate |-> IF env.rate_supported
                                             THEN config.sample_rate_hz
                                             ELSE env.fallback_rate],
                 profiles |-> [name \in DOMAIN loaded |-> loaded[name].value],
                 active_profile_name |-> config.instrument,
                 default_volume |-> config.master_volume,
                 default_duration_ms |-> config.note_duration_ms,
                 release_duration_ms |-> config.release_duration_ms])

\* env: what the audio device and the file system do during construction
new(config, env) ==
  IF ~env.device_available THEN Err("no audio output device available")
  ELSE IF ~env.stream_opens THEN Err("failed to open audio stream")
  ELSE
    LET loaded == [name \in DOMAIN config.instrument_profiles |->
                     load_soundfont_profile(name, config.instrument_profiles[name],
                                            env.fs)]
    IN  IF \E name \in DOMAIN loaded : ~loaded[name].ok
        THEN Err(loaded[CHOOSE name \in DOMAIN loaded : ~loaded[name].ok].error)
        ELSE IF config.instrument \notin DOMAIN loaded
        THEN Err("active instrument profile not found in audio.instrument_profiles")
        ELSE Ok([stream |-> [sample_rate |-> IF env.rate_supported
                                             THEN config.sample_rate_hz
                                             ELSE env.fallback_rate],
                 profiles |-> [name \in DOMAIN loaded |-> loaded[name].value],
                 active_profile_name |-> config.instrument,
                 default_volume |-> config.master_volume,
                 default_duration_ms |-> config.note_duration_ms,
                 release_duration_ms |-> config.release_duration_ms])

\* variant of current_profile: the first profile of the map, whatever is active
current_profile_first(self) ==
  IF DOMAIN self.profiles = {} THEN None
  ELSE Some(self.profiles[CHOOSE name \in DOMAIN self.profiles :
                            name = "acoustic_guitar" \/ DOMAIN self.profiles = {name}])

current_profile(self) ==
  IF self.active_profile_name \in DOMAIN self.profiles
  THEN Some(self.profiles[self.active_profile_name])
  ELSE None

\* variant of set_active_profile: the name is stored before it is checked
set_active_profile_assign_first(self, profile_name) ==
  IF profile_name \notin DOMAIN self.profiles
  THEN [self |-> [self EXCEPT !.active_profile_name = profile_name],
        result |-> Err("unknown audio profile")]
  ELSE [self |-> [self EXCEPT !.active_profile_name = profile_name],
        result |-> Ok(<<>>)]

set_active_profile(self, profile_name) ==
  IF profile_name \notin DOMAIN self.profiles
  THEN [self |-> self, result |-> Err("unknown audio profile")]
  ELSE [self |-> [self EXCEPT !.active_profile_name = profile_name],
        result |-> Ok(<<>>)]

\* variant of set_master_volume: the clamp is missing
set_master_volume_unclamped(self, volume) ==
  [self |-> [self EXCEPT !.default_volume = volume]]

set_master_volume(self, volume) ==
  [self |-> [self EXCEPT !.default_volume = f32_clamp(volume, 0, 250)]]

SamplesBuffer(channels, sample_rate, samples) ==
  [channels |-> channels, sample_rate |-> sample_rate, len |-> samples.len]

NoTrace == [call |-> NoRenderCall, result |-> Err("active profile missing")]

\* variant of play_note_with_velocity_duration: a failed render still hands
\* an (empty) buffer to the mixer
play_note_with_velocity_duration_push_on_error(self, midi_note, velocity, duration_ms) ==
  LET sample_rate == self.stream.sample_rate
      active_profile == current_profile(self)
  IN  IF active_profile = None
      THEN [self |-> self, added |-> <<>>, trace |-> NoTrace]
      ELSE LET trace == render_soundfont_note_samples(
                          active_profile[1], midi_note, velocity, duration_ms,
                          self.release_duration_ms, sample_rate, self.default_volume)
           IN  [self |-> self,
                added |-> << SamplesBuffer(2, sample_rate,
                                           IF trace.result.ok THEN trace.result.value
                                                              ELSE EmptySamples) >>,
                trace |-> trace]

play_note_with_velocity_duration(self, midi_note, velocity, duration_ms) ==
  LET sample_rate == self.stream.sample_rate
      active_profile == current_profile(self)
  IN  IF active_profile = None
      THEN [self |-> self, added |-> <<>>, trace |-> NoTrace]
      ELSE LET trace == render_soundfont_note_samples(
                          active_profile[1], midi_note, velocity, duration_ms,
                          self.release_duration_ms, sample_rate, self.default_volume)
           IN  IF trace.result.ok
               THEN [self |-> self,
                     added |-> << SamplesBuffer(2, sample_rate, trace.result.value) >>,
                     trace |-> trace]
               ELSE [self |-> self, added |-> <<>>, trace |-> trace]

play_note(self, midi_note) ==
  play_note_with_velocity_duration(self, midi_note, 112, self.default_duration_ms)

\* variant of play_metronome_tick: the duration of the tick is kept as the
\* engine's default note duration
play_metronome_tick_keeps_duration(self, accent) ==
  LET duration_ms == IF accent THEN 115 ELSE 90
      out == play_note_with_velocity_duration(
               self, IF accent THEN 94 ELSE 86, IF accent THEN 124 ELSE 92, duration_ms)
  IN  [out EXCEPT !.self = [self EXCEPT !.default_duration_ms = duration_ms]]

play_metronome_tick(self, accent) ==
  LET midi_note == IF accent THEN 94 ELSE 86
      velocity == IF accent THEN 124 ELSE 92
      duration_ms == IF accent THEN 115 ELSE 90
  IN  play_note_with_velocity_duration(self, midi_note, velocity, duration_ms)

\* variant of play_song: the test for an empty sample vector is missing
play_song_push_empty(self, song) ==
  LET sample_rate == self.stream.sample_rate
      active_profile == current_profile(self)
  IN  IF active_profile = None
      THEN [self |-> self, added |-> <<>>, trace |-> NoTrace]
      ELSE LET trace == render_soundfont_song_samples(
                          active_profile[1], song, sample_rate, self.default_volume,
                          self.default_duration_ms, self.release_duration_ms)
           IN  IF trace.result.ok
               THEN [self |-> self,
                     added |-> << SamplesBuffer(2, sample_rate, trace.result.value) >>,
                     trace |-> trace]
               ELSE [self |-> self, added |-> <<>>, trace |-> trace]

play_song(self, song) ==
  LET sample_rate == self.stream.sample_rate
      active_profile == current_profile(self)
  IN  IF active_profile = None
      THEN [self |-> self, added |-> <<>>, trace |-> NoTrace]
      ELSE LET trace == render_soundfont_song_samples(
                          active_profile[1], song, sample_rate, self.default_volume,
                          self.default_duration_ms, self.release_duration_ms)
           IN  IF trace.result.ok /\ trace.result.value.len # 0
               THEN [self |-> self,
                     added |-> << SamplesBuffer(2, sample_rate, trace.result.value) >>,
                     trace |-> trace]
               ELSE [self |-> self, added |-> <<>>, trace |-> trace]

(***************************************************************************)
(* Key chords (src/src/input.rs).  A &str whose characters matter is a     *)
(* sequence of one-character strings; the key of a chord is a string.      *)
(***************************************************************************)
UpperCase == <<"A", "B", "C", "D", "E", "F", "G", "H", "I", "J", "K", "L", "M", "N", "O", "P", "Q", "R", "S", "T", "U", "V", "W", "X", "Y", "Z">>
LowerCase == <<"a", "b", "c", "d", "e", "f", "g", "h", "i", "j", "k", "l", "m", "n", "o", "p", "q", "r", "s", "t", "u", "v", "w", "x", "y", "z">>
DigitChars == <<"0", "1", "2", "3", "4", "5", "6", "7", "8", "9">>
WhiteSpace == {" ", "\t"}

\* char::to_ascii_lowercase
char_to_ascii_lowercase(ch) ==
  IF \E i \in DOMAIN UpperCase : UpperCase[i] = ch
  THEN LowerCase[CHOOSE i \in DOMAIN UpperCase : UpperCase[i] = ch]
  ELSE ch

\* str::to_ascii_lowercase
to_ascii_lowercase(text) == [i \in DOMAIN text |-> char_to_ascii_lowercase(text[i])]

\* the String made of the characters
RECURSIVE to_string(_)
to_string(text) == IF text = <<>> THEN "" ELSE text[1] \o to_string(Tail(text))

\* str::trim
RECURSIVE trim(_)
trim(text) ==
  IF text = <<>> THEN text
  ELSE IF text[1] \in WhiteSpace THEN trim(Tail(text))
  ELSE IF text[Len(text)] \in WhiteSpace THEN trim(SubSeq(text, 1, Len(text) - 1))
  ELSE text

\* str::split(sep): the pieces between the separators, empty pieces included
RECURSIVE split(_, _)
split(text, sep) ==
  IF \A i \in DOMAIN text : text[i] # sep THEN <<text>>
  ELSE LET at == CHOOSE i \in DOMAIN text :
                   text[i] = sep /\ \A j \in 1..(i - 1) : text[j] # sep
       IN  <<SubSeq(text, 1, at - 1)>> \o split(SubSeq(text, at + 1, Len(text)), sep)

\* the value of a character as a decimal digit
digit_value(ch) == (CHOOSE i \in DOMAIN DigitChars : DigitChars[i] = ch) - 1

\* the digit loop of u8::from_str: checked_mul(10) and checked_add(digit)
RECURSIVE checked_digits(_, _)
checked_digits(digits, acc) ==
  IF digits = <<>> THEN Some(acc)
  ELSE LET next == 10 * acc + digit_value(digits[1])
       IN  IF next > 255 THEN None ELSE checked_digits(Tail(digits), next)

\* str::parse::<u8>: an optional '+', then at least one ASCII digit, and a
\* value of at most 255
parse_u8(text) ==
  LET digits == IF text # <<>> /\ text[1] = "+" THEN Tail(text) ELSE text
  IN  IF digits = <<>> THEN Err("cannot parse integer from empty string")
      ELSE IF \E i \in DOMAIN digits :
                \A d \in DOMAIN DigitChars : DigitChars[d] # digits[i]
      THEN Err("invalid digit found in string")
      ELSE IF checked_digits(digits, 0) = None
      THEN Err("number too large to fit in target type")
      ELSE Ok(checked_digits(digits, 0)[1])

\* format!("{n}") for a u8
format_u8(n) ==
  IF n < 10 THEN DigitChars[n + 1]
  ELSE IF n < 100 THEN DigitChars[(n \div 10) + 1] \o DigitChars[(n % 10) + 1]
  ELSE DigitChars[(n \div 100) + 1] \o DigitChars[((n \div 10) % 10) + 1]
       \o DigitChars[(n % 10) + 1]

\* variant of parse_function_key_token: the test of the range f1..f24 is missing
parse_function_key_token_unchecked(token) ==
  IF ~(token # <<>> /\ token[1] = "f" /\ Len(token) > 1) THEN Ok(None)
  ELSE LET n == parse_u8(Tail(token))
       IN  IF ~n.ok THEN Err("invalid function key")
           ELSE Ok(Some("f" \o format_u8(n.value)))

parse_function_key_token(token) ==
  IF ~(token # <<>> /\ token[1] = "f" /\ Len(token) > 1) THEN Ok(None)
  ELSE LET n == parse_u8(Tail(token))
       IN  IF ~n.ok THEN Err("invalid function key")
           ELSE IF ~(1 <= n.value /\ n.value <= 24)
           THEN Err("function key must be in range f1..f24")
           ELSE Ok(Some("f" \o format_u8(n.value)))

\* the named arms of the match in parse_key_token: token and normalized key
\* ("U+0060" stands for the one-character string made of the grave accent)
KEY_TOKENS ==
  { <<"esc", "esc">>,
     <<"escape", "esc">>,
     <<"enter", "enter">>,
     <<"return", "enter">>,
     <<"tab", "tab">>,
     <<"backtab", "backtab">>,
     <<"backspace", "backspace">>,
     <<"space", "space">>,
     <<"left", "left">>,
     <<"right", "right">>,
     <<"up", "up">>,
     <<"down", "down">>,
     <<"home", "home">>,
     <<"end", "end">>,
     <<"pageup", "pageup">>,
     <<"pagedown", "pagedown">>,
     <<"delete", "delete">>,
     <<"del", "delete">>,
     <<"insert", "insert">>,
     <<"ins", "insert">>,
     <<"comma", ",">>,
     <<"period", ".">>,
     <<"dot", ".">>,
     <<"slash", "/">>,
     <<"semicolon", ";">>,
     <<"apostrophe", "'">>,
     <<"quote", "'">>,
     <<"minus", "-">>,
     <<"equals", "=">>,
     <<"left_bracket", "[">>,
     <<"lbracket", "[">>,
     <<"right_bracket", "]">>,
     <<"rbracket", "]">>,
     <<"backslash", "\\">>,
     <<"grave", "U+0060">>,
     <<"backtick", "U+0060">>,
     <<"plus", "+">> }

parse_key_token(token) ==
  IF \E entry \in KEY_TOKENS : entry[1] = to_string(token)
  THEN Ok((CHOOSE entry \in KEY_TOKENS : entry[1] = to_string(token))[2])
  ELSE LET f_key == parse_function_key_token(token)
       IN  IF ~f_key.ok THEN Err(f_key.error)
           ELSE IF f_key.value # None THEN Ok(f_key.value[1])
           ELSE IF Len(token) = 1 THEN Ok(char_to_ascii_lowercase(token[1]))
           ELSE Err("unknown key token")

KeyModifiers(ctrl, alt, logo, shift) ==
  [ctrl |-> ctrl, alt |-> alt, logo |-> logo, shift |-> shift]

KeyChord(key, modifiers) == [key |-> key, modifiers |-> modifiers]

\* the for loop of parse_chord over the tokens from index i on
RECURSIVE parse_chord_tokens(_, _, _, _)
parse_chord_tokens(tokens, i, modifiers, key_token) ==
  IF i > Len(tokens)
  THEN IF key_token = None THEN Err("missing key in chord")
       ELSE Ok(KeyChord(key_token[1], modifiers))
  ELSE LET lowered == to_ascii_lowercase(tokens[i])
           word == to_string(lowered)
       IN  IF word \in {"ctrl", "control"}
           THEN parse_chord_tokens(tokens, i + 1, [modifiers EXCEPT !.ctrl = TRUE],
                                   key_token)
           ELSE IF word \in {"alt", "option"}
           THEN parse_chord_tokens(tokens, i + 1, [modifiers EXCEPT !.alt = TRUE],
                                   key_token)
           ELSE IF word \in {"super", "meta", "cmd", "command", "win", "windows"}
           THEN parse_chord_tokens(tokens, i + 1, [modifiers EXCEPT !.logo = TRUE],
                                   key_token)
           ELSE IF word = "shift"
           THEN parse_chord_tokens(tokens, i + 1, [modifiers EXCEPT !.shift = TRUE],
                                   key_token)
           ELSE IF key_token # None THEN Err("multiple non-modifier keys in chord")
           ELSE LET parsed == parse_key_token(lowered)
                IN  IF ~parsed.ok THEN Err(parsed.error)
                    ELSE parse_chord_tokens(tokens, i + 1, modifiers,
                                            Some(parsed.value))

parse_chord(spec) ==
  LET pieces == split(spec, "+")
      trimmed == [i \in DOMAIN pieces |-> trim(pieces[i])]
      tokens == SelectSeq(trimmed, LAMBDA token : token # <<>>)
  IN  parse_chord_tokens(tokens, 1, KeyModifiers(FALSE, FALSE, FALSE, FALSE), None)

\* a key of a key event: Key::Character(text), Key::Named(named), Key::Unidentified
Character(text) == [kind |-> "Character", text |-> text]
Named(named) == [kind |-> "Named", named |-> named]
Unidentified == [kind |-> "Unidentified"]

FUNCTION_KEYS == <<"F1", "F2", "F3", "F4", "F5", "F6", "F7", "F8", "F9", "F10", "F11", "F12", "F13", "F14", "F15", "F16", "F17", "F18", "F19", "F20", "F21", "F22", "F23", "F24">>

named_function_key(named) ==
  IF \E n \in DOMAIN FUNCTION_KEYS : FUNCTION_KEYS[n] = named
  THEN Some(CHOOSE n \in DOMAIN FUNCTION_KEYS : FUNCTION_KEYS[n] = named)
  ELSE None

\* the named arms of the match in named_key_to_token
NAMED_KEYS ==
  { <<"Escape", "esc">>,
     <<"Enter", "enter">>,
     <<"Tab", "tab">>,
     <<"Backspace", "backspace">>,
     <<"Space", "space">>,
     <<"ArrowLeft", "left">>,
     <<"ArrowRight", "right">>,
     <<"ArrowUp", "up">>,
     <<"ArrowDown", "down">>,
     <<"Home", "home">>,
     <<"End", "end">>,
     <<"PageUp", "pageup">>,
     <<"PageDown", "pagedown">>,
     <<"Delete", "delete">>,
     <<"Insert", "insert">> }

named_key_to_token(named) ==
  IF \E entry \in NAMED_KEYS : entry[1] = named
  THEN Some((CHOOSE entry \in NAMED_KEYS : entry[1] = named)[2])
  ELSE LET n == named_function_key(named)
       IN  IF n = None THEN None ELSE Some("f" \o format_u8(n[1]))

\* Some(<<token, is_char_key>>) or None
key_to_token_from_event(key) ==
  IF key.kind = "Character"
  THEN IF key.text = <<>> THEN None
       ELSE IF Len(key.text) > 1
       THEN Some(<<to_string(to_ascii_lowercase(key.text)), FALSE>>)
       ELSE IF key.text[1] = " " THEN Some(<<"space", FALSE>>)
       ELSE Some(<<char_to_ascii_lowercase(key.text[1]), TRUE>>)
  ELSE IF key.kind = "Named"
  THEN LET token == named_key_to_token(key.named)
       IN  IF token = None THEN None ELSE Some(<<token[1], FALSE>>)
  ELSE None

\* KeyModifiers::from_iced
from_iced(modifiers) ==
  KeyModifiers(modifiers.control, modifiers.alt, modifiers.logo, modifiers.shift)

\* variant of from_key_event: shift is dropped for every key
from_key_event_drops_shift(key, modifiers, ignore_shift_for_char_keys) ==
  LET token == key_to_token_from_event(key)
  IN  IF token = None THEN None
      ELSE Some(KeyChord(token[1][1],
                         IF ignore_shift_for_char_keys
                         THEN [from_iced(modifiers) EXCEPT !.shift = FALSE]
                         ELSE from_iced(modifiers)))

\* KeyChord::from_key_event
from_key_event(key, modifiers, ignore_shift_for_char_keys) ==
  LET token == key_to_token_from_event(key)
  IN  IF token = None THEN None
      ELSE Some(KeyChord(token[1][1],
                         IF ignore_shift_for_char_keys /\ token[1][2]
                         THEN [from_iced(modifiers) EXCEPT !.shift = FALSE]
                         ELSE from_iced(modifiers)))

(***************************************************************************)
(* Inputs                                                                  *)
(***************************************************************************)
ProfileNames == {"piano", "acoustic_guitar"}
NameArgs == ProfileNames \cup {"nonexistent"}

\* AudioEngine::new is public and does not validate: the configurations
\* include ones validate_config would reject
Configs ==
  {config \in
     [instrument : NameArgs,
      master_volume : {F(68), F(300)},
      note_duration_ms : {20, 680},
      release_duration_ms : {100, 720},
      sample_rate_hz : {48000},
      instrument_profiles :
        {[name \in keys |-> default_instrument_profiles[name]] :
           keys \in SUBSET ProfileNames}] :
     <<config.note_duration_ms, config.release_duration_ms>>
       \in {<<680, 720>>, <<20, 100>>}}

FileSystems ==
  LET cfg == "res/soundfonts/piano.sf2"
      sys == {COMMON_SOUNDFONT_PATHS[2], COMMON_SOUNDFONT_PATHS[4]}
  IN  { [existing |-> {cfg}, readable |-> {cfg}, parsable |-> {cfg}],
        [existing |-> sys, readable |-> sys, parsable |-> sys],
        [existing |-> {}, readable |-> {}, parsable |-> {}],
        [existing |-> {cfg}, readable |-> {}, parsable |-> {}],
        [existing |-> {cfg}, readable |-> {cfg}, parsable |-> {}] }

\* open_stream_or_fallback: the requested rate, or whatever the device offers
Envs ==
  [device_available : BOOLEAN, stream_opens : BOOLEAN, rate_supported : BOOLEAN,
   fallback_rate : {384000}, fs : FileSystems]

VolumeArgs == {F(0 - 50), F(400), NaN}
NoteArgs == {60, 200}
VelocityArgs == {0, 112}
DurationArgs == {0, 115}

Event(at_beats, duration_beats, notes, velocity) ==
  [at_beats |-> at_beats, duration_beats |-> duration_beats,
   notes |-> notes, velocity |-> velocity]

Song(tempo_bpm, default_velocity, events) ==
  [meta |-> [tempo_bpm |-> tempo_bpm, default_velocity |-> default_velocity],
   events |-> events]

EventPool ==
  { Event(<<0, 1>>, <<1, 1>>, <<60, 64>>, None),
    Event(<<3, 2>>, <<1, 4>>, <<60>>, Some(100)),
    Event(<<1, 1>>, <<0, 1>>, <<64>>, None),
    Event(<<1, 1>>, <<1, 1>>, <<>>, None),
    Event(<<0 - 1, 1>>, <<1, 1>>, <<72>>, Some(0)),
    Event(<<2, 1>>, <<0 - 1, 1>>, <<60, 60>>, Some(200)),
    Event(<<1, 3>>, <<1, 3>>, <<200>>, None),
    Event(<<0, 1>>, <<1, 4>>, <<64>>, Some(127)) }

RECURSIVE SeqsUpTo(_, _)
SeqsUpTo(S, n) ==
  IF n = 0 THEN {<<>>}
  ELSE LET shorter == SeqsUpTo(S, n - 1)
       IN  shorter \cup {Append(q, x) : q \in shorter, x \in S}

Tempos == {<<1, 2>>, <<120, 1>>, <<400, 1>>}

SchedSongs ==
  {Song(t, v, ev) : t \in Tempos, v \in {0, 96}, ev \in SeqsUpTo(EventPool, MaxEvents)}

FacadeSongs ==
  { Song(<<120, 1>>, 96, <<>>),
    Song(<<120, 1>>, 96, << Event(<<1, 1>>, <<1, 1>>, <<>>, None) >>),
    Song(<<120, 1>>, 96, << Event(<<0, 1>>, <<1, 1>>, <<60, 64>>, None) >>),
    Song(<<1, 2>>, 0, << Event(<<1, 1>>, <<0, 1>>, <<64>>, None),
                         Event(<<1, 1>>, <<1, 1>>, <<>>, None),
                         Event(<<3, 2>>, <<1, 4>>, <<60>>, Some(100)) >>) }

(***************************************************************************)
(* The playback state machine of the GUI (src/src/main.rs).  Seconds are   *)
(* integers in hundredths (0.18 s is 18); the songs of the model have      *)
(* times that are whole hundredths.  The bindings are described by the set *)
(* of notes that have a key.  The flashes of the keys, the activity log,   *)
(* the volume, the instrument and the song search are not described.       *)
(***************************************************************************)
TIMER_WINDOW_SECONDS == 18
TIMER_PERFECT_SECONDS == 7

\* a rational number of seconds in hundredths of a second
Hundredths(q) == (q[1] * 100) \div q[2]

Abs(x) == IF x < 0 THEN 0 - x ELSE x

\* the notes of a Vec<u8> as a set
NoteSet(notes) == {notes[i] : i \in DOMAIN notes}

SongFile(tempo_bpm, default_velocity, beats_per_bar, events) ==
  [meta |-> [tempo_bpm |-> tempo_bpm, default_velocity |-> default_velocity,
             beats_per_bar |-> beats_per_bar],
   events |-> events]

PreparedEvent(at_seconds, duration_seconds, duration_ms, velocity, notes) ==
  [at_seconds |-> at_seconds, duration_seconds |-> duration_seconds,
   duration_ms |-> duration_ms, velocity |-> velocity, notes |-> notes]

ExpectedNote(at_seconds, midi_note) ==
  [at_seconds |-> at_seconds, midi_note |-> midi_note]

\* the for loop of prepare_song over song.events
RECURSIVE prepare_events(_, _, _, _)
prepare_events(song, i, beat_seconds, acc) ==
  IF i > Len(song.events) THEN acc
  ELSE LET event == song.events[i]
       IN  IF event.notes = <<>>
           THEN prepare_events(song, i + 1, beat_seconds, acc)
           ELSE LET at_seconds ==
                      Hundredths(QMul(QMax(event.at_beats, <<0, 1>>), beat_seconds))
                    duration_seconds_for_event ==
                      IF QPos(event.duration_beats)
                      THEN Hundredths(QMax(QMul(event.duration_beats, beat_seconds),
                                           <<4, 100>>))
                      ELSE 32
                    duration_ms == Max(duration_seconds_for_event * 10, 45)
                    velocity ==
                      clamp(IF event.velocity = <<>> THEN song.meta.default_velocity
                                                     ELSE event.velocity[1],
                            1, 127)
                IN  prepare_events(song, i + 1, beat_seconds,
                      [events |-> Append(acc.events,
                                         PreparedEvent(at_seconds,
                                                       duration_seconds_for_event,
                                                       duration_ms, velocity,
                                                       event.notes)),
                       expected_notes |->
                         acc.expected_notes
                           \o [j \in DOMAIN event.notes |->
                                 ExpectedNote(at_seconds, event.notes[j])],
                       duration_seconds |->
                         Max(acc.duration_seconds,
                             at_seconds + duration_seconds_for_event)])

prepare_song(song) ==
  LET beat_seconds == QDiv(<<60, 1>>, QMax(song.meta.tempo_bpm, <<1, 1>>))
      acc == prepare_events(song, 1, beat_seconds,
                            [events |-> <<>>, expected_notes |-> <<>>,
                             duration_seconds |-> 0])
  IN  [events |-> acc.events,
       expected_notes |-> acc.expected_notes,
       duration_seconds |-> acc.duration_seconds,
       beat_seconds |-> Hundredths(beat_seconds)]

\* the shifts choose_transpose_for_fit tries, in its order
SHIFTS == <<0 - 48, 0 - 36, 0 - 24, 0 - 12, 0, 12, 24, 36, 48>>

\* the distinct notes of all events of a song
unique_notes(song) == UNION {NoteSet(song.events[i].notes) : i \in DOMAIN song.events}

\* the for loop of choose_transpose_for_fit over the shifts
RECURSIVE choose_shift(_, _, _, _, _)
choose_shift(notes, available_notes, i, best_shift, best_score) ==
  IF i > Len(SHIFTS) THEN best_shift
  ELSE LET shift == SHIFTS[i]
           score == Cardinality({note \in notes :
                                   /\ note + shift >= 0
                                   /\ note + shift <= 127
                                   /\ (note + shift) \in available_notes})
           is_better == \/ score > best_score
                        \/ score = best_score /\ Abs(shift) < Abs(best_shift)
       IN  IF is_better
           THEN choose_shift(notes, available_notes, i + 1, shift, score)
           ELSE choose_shift(notes, available_notes, i + 1, best_shift, best_score)

choose_transpose_for_fit(song, available_notes) ==
  IF unique_notes(song) = {} THEN 0
  ELSE choose_shift(unique_notes(song), available_notes, 1, 0, 0)

\* a note is shifted only when the shifted note is a MIDI note
shifted_note(note, delta) ==
  IF note + delta >= 0 /\ note + delta <= 127 THEN note + delta ELSE note

transpose_song_by_semitones(source, semitones) ==
  [source EXCEPT !.events =
     [i \in DOMAIN source.events |->
        [source.events[i] EXCEPT !.notes =
           [j \in DOMAIN source.events[i].notes |->
              shifted_note(source.events[i].notes[j], semitones)]]]]

\* RuntimeBindings, as far as the playback depends on it: the notes that
\* have a key (the keys of note_to_chords)
compile_runtime_bindings(config) == [note_to_chords |-> config.keybindings]

\* apply_song_ergonomic_bindings removes the bindings of the song's notes and
\* gives each note of the song a key of the ergonomic pools, as long as a key
\* is free; the pools hold 46 keys and the songs of the model have fewer
\* notes, so every note of the song has a key afterwards
apply_song_ergonomic_bindings(bindings, song) ==
  IF unique_notes(song) = {} THEN bindings
  ELSE [note_to_chords |->
          (bindings.note_to_chords \ unique_notes(song)) \cup unique_notes(song)]

prepare_song_for_bindings(source_song, bindings, transpose_to_fit) ==
  LET available_notes == bindings.note_to_chords
      transpose == IF transpose_to_fit
                   THEN choose_transpose_for_fit(source_song, available_notes)
                   ELSE 0
      adapted_song == IF transpose # 0
                      THEN transpose_song_by_semitones(source_song, transpose)
                      ELSE source_song
      prepared == prepare_song(adapted_song)
  IN  [prepared |-> Some(prepared),
       transpose |-> transpose,
       missing |-> {entry.midi_note : entry \in
                      {prepared.expected_notes[i] :
                         i \in DOMAIN prepared.expected_notes}}
                     \ available_notes]

TimerScore(expected_notes) ==
  [expected_notes |-> expected_notes, hit_notes |-> 0, perfect_hits |-> 0,
   good_hits |-> 0, wrong_notes |-> 0, missed_notes |-> 0]

\* PlaybackState::new; now is Instant::now()
PlaybackState(mode, prepared, now) ==
  [mode |-> mode, started_at |-> now, cursor_seconds |-> 0,
   next_event_index |-> 0, tutorial_event_index |-> 0,
   tutorial_matched |-> {}, next_metronome_beat_s |-> 0,
   next_metronome_index |-> 0, matched_note_indices |-> {},
   score |-> TimerScore(Len(prepared.expected_notes))]

\* Vec::get with a 0-based index
Get(seq, index) == IF index < Len(seq) THEN Some(seq[index + 1]) ELSE None

\* compile_runtime_bindings succeeded on this config in main and the config
\* never changes, so the early return of rebuild_song_context is not taken
rebuild_song_context(self) ==
  LET compiled == compile_runtime_bindings(self.config)
      song == IF self.selected_song = None THEN None
              ELSE Get(self.songs, self.selected_song[1])
      bindings == IF self.optimize_bindings_for_song /\ song # None
                  THEN apply_song_ergonomic_bindings(compiled, song[1])
                  ELSE compiled
      built == IF song = None
               THEN [prepared |-> None, transpose |-> 0, missing |-> {}]
               ELSE prepare_song_for_bindings(song[1], bindings,
                                              self.transpose_song_to_fit_bindings)
  IN  [self EXCEPT !.bindings = bindings,
                   !.prepared_song = built.prepared,
                   !.prepared_transpose_semitones = built.transpose,
                   !.missing_song_notes = built.missing]

select_song(self, index) ==
  [rebuild_song_context([self EXCEPT !.selected_song = Some(index)])
     EXCEPT !.playback = None, !.last_timer_score = None]

\* variant of start_playback: a song without events is started too
start_playback_without_events(self, now) ==
  IF self.prepared_song = None THEN self
  ELSE LET prepared == self.prepared_song[1]
           state == PlaybackState(self.play_mode, prepared, now)
       IN  [self EXCEPT !.held_notes = {},
                        !.last_timer_score = None,
                        !.playback = Some(state)]

start_playback(self, now) ==
  IF self.prepared_song = None THEN self
  ELSE IF self.prepared_song[1].events = <<>> THEN self
  ELSE LET prepared == self.prepared_song[1]
           state == PlaybackState(self.play_mode, prepared, now)
       IN  [self EXCEPT !.held_notes = {},
                        !.last_timer_score = None,
                        !.playback =
                          Some(IF state.mode = "Tutorial"
                               THEN [state EXCEPT !.cursor_seconds =
                                       prepared.events[1].at_seconds]
                               ELSE state)]

stop_playback(self) ==
  IF self.playback # None THEN [self EXCEPT !.playback = None] ELSE self

selected_beats_per_bar(self) ==
  LET song == IF self.selected_song = None THEN None
              ELSE Get(self.songs, self.selected_song[1])
  IN  IF song # None /\ song[1].meta.beats_per_bar > 0
      THEN song[1].meta.beats_per_bar
      ELSE 4

\* now.duration_since(started_at): zero when now is earlier
duration_since(now, earlier) == Max(now - earlier, 0)

\* the metronome loop of a Timer tick: one play_metronome_tick(accent) for
\* each beat up to elapsed
RECURSIVE metronome_ticks(_, _, _, _)
metronome_ticks(playback, elapsed, beat_seconds, beats_per_bar) ==
  IF elapsed >= playback.next_metronome_beat_s
  THEN LET rest == metronome_ticks(
                     [playback EXCEPT
                        !.next_metronome_index = @ + 1,
                        !.next_metronome_beat_s = @ + beat_seconds],
                     elapsed, beat_seconds, beats_per_bar)
       IN  [playback |-> rest.playback,
            accents |-> <<playback.next_metronome_index % beats_per_bar = 0>>
                          \o rest.accents]
  ELSE [playback |-> playback, accents |-> <<>>]

\* variant of due_events: the events are triggered whatever the time
RECURSIVE due_events_ahead(_, _, _)
due_events_ahead(playback, events, elapsed) ==
  LET event == Get(events, playback.next_event_index)
  IN  IF event = None THEN [playback |-> playback, triggered |-> <<>>]
      ELSE LET rest == due_events_ahead(
                         [playback EXCEPT !.next_event_index = @ + 1],
                         events, elapsed)
           IN  [playback |-> rest.playback,
                triggered |-> <<playback.next_event_index>> \o rest.triggered]

\* the event loop of an Autoplay tick: trigger_event for each event that is
\* due, in index order
RECURSIVE due_events(_, _, _)
due_events(playback, events, elapsed) ==
  LET event == Get(events, playback.next_event_index)
  IN  IF event = None THEN [playback |-> playback, triggered |-> <<>>]
      ELSE IF event[1].at_seconds > elapsed
      THEN [playback |-> playback, triggered |-> <<>>]
      ELSE LET rest == due_events([playback EXCEPT !.next_event_index = @ + 1],
                                  events, elapsed)
           IN  [playback |-> rest.playback,
                triggered |-> <<playback.next_event_index>> \o rest.triggered]

\* what a handler handed to the audio engine: the accents of the metronome
\* ticks, the indices of the events triggered, and whether the note of a note
\* input is played
Effects(accents, triggered, play_out_loud) ==
  [accents |-> accents, triggered |-> triggered, play_out_loud |-> play_out_loud]

NoEffects == Effects(<<>>, <<>>, FALSE)

\* variant of handle_tick: the end of an Autoplay run stores a score too
handle_tick_scoring_autoplay(self, now) ==
  IF self.playback = None THEN [self |-> self, effects |-> NoEffects]
  ELSE IF self.prepared_song = None
  THEN [self |-> [self EXCEPT !.playback = None], effects |-> NoEffects]
  ELSE LET taken == self.playback[1]
           prepared == self.prepared_song[1]
           elapsed == duration_since(now, taken.started_at)
       IN  CASE taken.mode = "Timer" ->
                  LET beats == metronome_ticks(
                                 [taken EXCEPT !.cursor_seconds = elapsed],
                                 elapsed, prepared.beat_seconds,
                                 selected_beats_per_bar(self))
                      playback == beats.playback
                      score == [playback.score EXCEPT !.missed_notes =
                                  Max(playback.score.expected_notes
                                        - playback.score.hit_notes, 0)]
                  IN  IF elapsed > prepared.duration_seconds + 120
                      THEN [self |-> [self EXCEPT !.playback = None,
                                                  !.last_timer_score = Some(score)],
                            effects |-> Effects(beats.accents, <<>>, FALSE)]
                      ELSE [self |-> [self EXCEPT !.playback = Some(playback)],
                            effects |-> Effects(beats.accents, <<>>, FALSE)]
             [] taken.mode = "Autoplay" ->
                  LET due == due_events([taken EXCEPT !.cursor_seconds = elapsed],
                                        prepared.events, elapsed)
                  IN  IF elapsed > prepared.duration_seconds + 80
                      THEN [self |-> [self EXCEPT !.playback = None,
                                                  !.last_timer_score =
                                                    Some(due.playback.score)],
                            effects |-> Effects(<<>>, due.triggered, FALSE)]
                      ELSE [self |-> [self EXCEPT !.playback = Some(due.playback)],
                            effects |-> Effects(<<>>, due.triggered, FALSE)]
             [] taken.mode = "Tutorial" ->
                  LET event == Get(prepared.events, taken.tutorial_event_index)
                  IN  IF event # None
                      THEN [self |-> [self EXCEPT !.playback =
                                        Some([taken EXCEPT !.cursor_seconds =
                                                event[1].at_seconds])],
                            effects |-> NoEffects]
                      ELSE [self |-> [self EXCEPT !.playback = None],
                            effects |-> NoEffects]

\* handle_tick: [self, effects]
handle_tick(self, now) ==
  IF self.playback = None THEN [self |-> self, effects |-> NoEffects]
  ELSE IF self.prepared_song = None
  THEN [self |-> [self EXCEPT !.playback = None], effects |-> NoEffects]
  ELSE LET taken == self.playback[1]
           prepared == self.prepared_song[1]
           elapsed == duration_since(now, taken.started_at)
       IN  CASE taken.mode = "Timer" ->
                  LET beats == metronome_ticks(
                                 [taken EXCEPT !.cursor_seconds = elapsed],
                                 elapsed, prepared.beat_seconds,
                                 selected_beats_per_bar(self))
                      playback == beats.playback
                      score == [playback.score EXCEPT !.missed_notes =
                                  Max(playback.score.expected_notes
                                        - playback.score.hit_notes, 0)]
                  IN  IF elapsed > prepared.duration_seconds + 120
                      THEN [self |-> [self EXCEPT !.playback = None,
                                                  !.last_timer_score = Some(score)],
                            effects |-> Effects(beats.accents, <<>>, FALSE)]
                      ELSE [self |-> [self EXCEPT !.playback = Some(playback)],
                            effects |-> Effects(beats.accents, <<>>, FALSE)]
             [] taken.mode = "Autoplay" ->
                  LET due == due_events([taken EXCEPT !.cursor_seconds = elapsed],
                                        prepared.events, elapsed)
                  IN  IF elapsed > prepared.duration_seconds + 80
                      THEN [self |-> [self EXCEPT !.playback = None],
                            effects |-> Effects(<<>>, due.triggered, FALSE)]
                      ELSE [self |-> [self EXCEPT !.playback = Some(due.playback)],
                            effects |-> Effects(<<>>, due.triggered, FALSE)]
             [] taken.mode = "Tutorial" ->
                  LET event == Get(prepared.events, taken.tutorial_event_index)
                  IN  IF event # None
                      THEN [self |-> [self EXCEPT !.playback =
                                        Some([taken EXCEPT !.cursor_seconds =
                                                event[1].at_seconds])],
                            effects |-> NoEffects]
                      ELSE [self |-> [self EXCEPT !.playback = None],
                            effects |-> NoEffects]

\* the loop of a Timer note input over the expected notes: the best match so
\* far is None or <<index, delta>>, index 0-based
RECURSIVE best_match(_, _, _, _, _, _)
best_match(expected_notes, i, midi_note, matched_note_indices, cursor, best) ==
  IF i > Len(expected_notes) THEN best
  ELSE LET expected == expected_notes[i]
           delta == Abs(expected.at_seconds - cursor)
       IN  IF \/ expected.midi_note # midi_note
              \/ (i - 1) \in matched_note_indices
              \/ delta > TIMER_WINDOW_SECONDS
              \/ (best # None /\ delta >= best[1][2])
           THEN best_match(expected_notes, i + 1, midi_note, matched_note_indices,
                           cursor, best)
           ELSE best_match(expected_notes, i + 1, midi_note, matched_note_indices,
                           cursor, Some(<<i - 1, delta>>))

\* variant of timer_note_input: a note that was already matched can be
\* matched again
timer_note_input_rematching(playback, prepared, midi_note, now) ==
  LET cursor == duration_since(now, playback.started_at)
      found == best_match(prepared.expected_notes, 1, midi_note, {}, cursor, None)
  IN  IF found # None
      THEN [playback EXCEPT
              !.cursor_seconds = cursor,
              !.matched_note_indices = @ \cup {found[1][1]},
              !.score.hit_notes = @ + 1,
              !.score.perfect_hits =
                IF found[1][2] <= TIMER_PERFECT_SECONDS THEN @ + 1 ELSE @,
              !.score.good_hits =
                IF found[1][2] <= TIMER_PERFECT_SECONDS THEN @ ELSE @ + 1]
      ELSE [playback EXCEPT !.cursor_seconds = cursor,
                            !.score.wrong_notes = @ + 1]

\* the Timer arm of process_note_input
timer_note_input(playback, prepared, midi_note, now) ==
  LET cursor == duration_since(now, playback.started_at)
      found == best_match(prepared.expected_notes, 1, midi_note,
                          playback.matched_note_indices, cursor, None)
  IN  IF found # None
      THEN [playback EXCEPT
              !.cursor_seconds = cursor,
              !.matched_note_indices = @ \cup {found[1][1]},
              !.score.hit_notes = @ + 1,
              !.score.perfect_hits =
                IF found[1][2] <= TIMER_PERFECT_SECONDS THEN @ + 1 ELSE @,
              !.score.good_hits =
                IF found[1][2] <= TIMER_PERFECT_SECONDS THEN @ ELSE @ + 1]
      ELSE [playback EXCEPT !.cursor_seconds = cursor,
                            !.score.wrong_notes = @ + 1]

\* the Tutorial arm of process_note_input, up to the test for the end
tutorial_note_input(playback, prepared, tutorial_options, midi_note) ==
  LET event == Get(prepared.events, playback.tutorial_event_index)
  IN  IF event = None THEN [playback |-> playback, play_out_loud |-> TRUE]
      ELSE IF midi_note \in NoteSet(event[1].notes)
      THEN LET matched == playback.tutorial_matched \cup {midi_note}
               expected_unique == Cardinality(NoteSet(event[1].notes))
           IN  [playback |->
                  IF Cardinality(matched) >= expected_unique
                  THEN [playback EXCEPT !.tutorial_event_index = @ + 1,
                                        !.tutorial_matched = {}]
                  ELSE [playback EXCEPT !.tutorial_matched = matched],
                play_out_loud |-> TRUE]
      ELSE IF tutorial_options.only_advance_on_correct_note
      THEN [playback |-> playback,
            play_out_loud |-> tutorial_options.play_bad_notes_out_loud]
      ELSE [playback |-> [playback EXCEPT !.tutorial_event_index = @ + 1,
                                          !.tutorial_matched = {}],
            play_out_loud |-> tutorial_options.play_bad_notes_out_loud]

\* variant of process_note_input: a tutorial at its last event runs on
process_note_input_running_on(self, midi_note, now) ==
  IF self.playback = None \/ self.prepared_song = None
  THEN [self |-> self, play_out_loud |-> TRUE]
  ELSE LET taken == self.playback[1]
           prepared == self.prepared_song[1]
       IN  CASE taken.mode = "Timer" ->
                  [self |-> [self EXCEPT !.playback =
                               Some(timer_note_input(taken, prepared, midi_note, now))],
                   play_out_loud |-> TRUE]
             [] taken.mode = "Tutorial" ->
                  LET out == tutorial_note_input(taken, prepared,
                                                 self.tutorial_options, midi_note)
                  IN  [self |-> [self EXCEPT !.playback = Some(out.playback)],
                       play_out_loud |-> out.play_out_loud]
             [] taken.mode = "Autoplay" ->
                  [self |-> self, play_out_loud |-> TRUE]

\* process_note_input: [self, play_out_loud]
process_note_input(self, midi_note, now) ==
  IF self.playback = None \/ self.prepared_song = None
  THEN [self |-> self, play_out_loud |-> TRUE]
  ELSE LET taken == self.playback[1]
           prepared == self.prepared_song[1]
       IN  CASE taken.mode = "Timer" ->
                  [self |-> [self EXCEPT !.playback =
                               Some(timer_note_input(taken, prepared, midi_note, now))],
                   play_out_loud |-> TRUE]
             [] taken.mode = "Tutorial" ->
                  LET out == tutorial_note_input(taken, prepared,
                                                 self.tutorial_options, midi_note)
                      keep_running ==
                        \/ Get(prepared.events, taken.tutorial_event_index) = None
                        \/ out.playback.tutorial_event_index < Len(prepared.events)
                  IN  [self |-> [self EXCEPT !.playback =
                                   IF keep_running THEN Some(out.playback) ELSE None],
                       play_out_loud |-> out.play_out_loud]
             [] taken.mode = "Autoplay" ->
                  [self |-> self, play_out_loud |-> TRUE]

\* the state main builds before the first message
initial_state(config, songs) ==
  rebuild_song_context(
    [config |-> config,
     songs |-> songs,
     selected_song |-> IF songs = <<>> THEN None ELSE Some(0),
     prepared_song |-> None,
     prepared_transpose_semitones |-> 0,
     missing_song_notes |-> {},
     bindings |-> compile_runtime_bindings(config),
     transpose_song_to_fit_bindings |-> config.transpose_song_to_fit_bindings,
     optimize_bindings_for_song |-> config.optimize_bindings_for_song,
     held_notes |-> {},
     play_mode |-> "Timer",
     tutorial_options |-> [only_advance_on_correct_note |-> TRUE,
                           play_bad_notes_out_loud |-> TRUE],
     playback |-> None,
     last_timer_score |-> None])

\* before main has run
NoApp == [launched |-> FALSE]

\* the history kept beside the effects: the notes pressed since the tutorial
\* last moved to another event, the indices of the events triggered so far in
\* the run, and the mode of the run whose completion the last handler
\* announced ("Timer complete", "Auto Play complete.", "Tutorial complete.")
Gui(effects, pressed, played, completed) ==
  [effects |-> effects, pressed |-> pressed, played |-> played,
   completed |-> completed]

(***************************************************************************)
(* State machine of the facade                                             *)
(***************************************************************************)
Call(op, args, ok, error, added, trace) ==
  [op |-> op, args |-> args, ok |-> ok, error |-> error,
   added |-> added, trace |-> trace]

\* the callers of render_scheduled_actions, and a caller without a call
Callers == {"first", "second"}

NoRender ==
  [pc |-> "idle", total_frames |-> 0, actions |-> <<>>, sorted |-> <<>>,
   action_index |-> 1, cursor |-> 0, voices |-> {}, buffers |-> <<>>]

NoCall == Call("none", <<>>, TRUE, "", <<>>, NoTrace)
Idle == [fn |-> "idle"]

Init ==
  /\ phase = "start"
  /\ engine = NoEngine
  /\ mixer = 0
  /\ lastCall = NoCall
  /\ requested_profile = ""
  /\ probe = Idle
  /\ renders = [caller \in Callers |-> NoRender]
  /\ app = NoApp
  /\ clock = 0
  /\ gui = Gui(NoEffects, {}, <<>>, "")

New ==
  /\ phase = "start"
  /\ \E config \in Configs, env \in Envs :
       LET r == new(config, env)
       IN  /\ phase' = IF r.ok THEN "running" ELSE "failed"
           /\ engine' = IF r.ok THEN r.value ELSE NoEngine
           /\ requested_profile' = IF r.ok THEN config.instrument ELSE ""
           /\ lastCall' = Call("new", config, r.ok, r.error, <<>>, NoTrace)
  /\ UNCHANGED <<mixer, probe, renders, app, clock, gui>>

SetActiveProfile ==
  /\ phase = "running"
  /\ \E profile_name \in NameArgs :
       LET r == set_active_profile(engine, profile_name)
       IN  /\ engine' = r.self
           /\ requested_profile' = IF r.result.ok THEN profile_name
                                                  ELSE requested_profile
           /\ lastCall' = Call("set_active_profile", profile_name, r.result.ok,
                               r.result.error, <<>>, NoTrace)
  /\ UNCHANGED <<phase, mixer, probe, renders, app, clock, gui>>

SetMasterVolume ==
  /\ phase = "running"
  /\ \E volume \in VolumeArgs :
       LET r == set_master_volume(engine, volume)
       IN  /\ engine' = r.self
           /\ lastCall' = Call("set_master_volume", volume, TRUE, "", <<>>, NoTrace)
  /\ UNCHANGED <<phase, mixer, requested_profile, probe, renders, app, clock, gui>>

\* the common part of the play operations: the mixer receives what was added
Played(op, args, out) ==
  /\ mixer + Len(out.added) <= MaxMixer
  /\ engine' = out.self
  /\ mixer' = mixer + Len(out.added)
  /\ lastCall' = Call(op, args, out.trace.result.ok, out.trace.result.error,
                      out.added, out.trace)
  /\ UNCHANGED <<phase, requested_profile, probe, renders, app, clock, gui>>

PlayNote ==
  /\ phase = "running"
  /\ \E midi_note \in NoteArgs :
       Played("play_note", midi_note, play_note(engine, midi_note))

PlayNoteWithVelocityDuration ==
  /\ phase = "running"
  /\ \E midi_note \in NoteArgs, velocity \in VelocityArgs, duration_ms \in DurationArgs :
       Played("play_note_with_velocity_duration",
              <<midi_note, velocity, duration_ms>>,
              play_note_with_velocity_duration(engine, midi_note, velocity, duration_ms))

PlayMetronomeTick ==
  /\ phase = "running"
  /\ \E accent \in BOOLEAN :
       Played("play_metronome_tick", accent, play_metronome_tick(engine, accent))

PlaySong ==
  /\ phase = "running"
  /\ \E song \in FacadeSongs :
       Played("play_song", song, play_song(engine, song))

\* the output thread finishes playing a source and drops it
MixerDrain ==
  /\ phase = "running"
  /\ mixer > 0
  /\ mixer' = mixer - 1
  /\ lastCall' = Call("playback_finished", <<>>, TRUE, "", <<>>, NoTrace)
  /\ UNCHANGED <<phase, engine, requested_profile, probe, renders, app, clock, gui>>

Next ==
  \/ New
  \/ SetActiveProfile
  \/ SetMasterVolume
  \/ PlayNote
  \/ PlayNoteWithVelocityDuration
  \/ PlayMetronomeTick
  \/ PlaySong
  \/ MixerDrain

Spec == Init /\ [][Next]_vars

(***************************************************************************)
(* Direct calls of the scheduling and rendering functions, one call at a   *)
(* time, over inputs that need not come from a running engine.             *)
(***************************************************************************)
ProbeProfile ==
  [soundfont |-> "res/soundfonts/piano.sf2", profile |-> default_instrument_profiles["piano"]]

ProbeRates == {0, 15999, 16000, 48000, 192000, 192001}
ProbeNotes == {0, 60, 127, 255}
ProbeVelocities == {0, 1, 112, 127, 255}
ProbeHolds == {0, 39, 40, 41, 680}
ProbeReleases == {0, 159, 160, 161, 720}
SongRates == {16000, 44100, 48000}
SongDurations == {<<20, 100>>, <<680, 720>>, <<680, 239>>}

ActionPool ==
  {ScheduledAction(f, a) : f \in {0, 2, 4, 7}, a \in {NoteOn(60, 100), NoteOff(60)}}

ProbeNote ==
  /\ probe = Idle
  /\ \E midi_note \in ProbeNotes, velocity \in ProbeVelocities,
        note_duration_ms \in ProbeHolds, release_duration_ms \in ProbeReleases,
        sample_rate \in ProbeRates :
       probe' = [fn |-> "render_soundfont_note_samples",
                 midi_note |-> midi_note, velocity |-> velocity,
                 note_duration_ms |-> note_duration_ms,
                 release_duration_ms |-> release_duration_ms,
                 sample_rate |-> sample_rate,
                 trace |-> render_soundfont_note_samples(
                             ProbeProfile, midi_note, velocity, note_duration_ms,
                             release_duration_ms, sample_rate, F(68))]
  /\ UNCHANGED <<phase, engine, mixer, lastCall, requested_profile, renders, app, clock, gui>>

ProbeSong ==
  /\ probe = Idle
  /\ \E song \in SchedSongs, sample_rate \in SongRates, durations \in SongDurations :
       probe' = [fn |-> "render_soundfont_song_samples",
                 song |-> song, sample_rate |-> sample_rate,
                 default_note_duration_ms |-> durations[1],
                 release_duration_ms |-> durations[2],
                 schedule |-> song_schedule(song, sample_rate, durations[1],
                                            durations[2]),
                 trace |-> render_soundfont_song_samples(
                             ProbeProfile, song, sample_rate, F(68),
                             durations[1], durations[2])]
  /\ UNCHANGED <<phase, engine, mixer, lastCall, requested_profile, renders, app, clock, gui>>

\* songs with an event at +infinity beats, alone or beside an ordinary event
FarEvent == Event(<<1, 0>>, <<1, 1>>, <<60>>, None)
NearEvent == Event(<<1, 1>>, <<1, 2>>, <<64, 67>>, Some(100))
FarSongs ==
  {Song(t, 96, ev) : t \in {<<1, 2>>, <<120, 1>>},
                     ev \in {<<FarEvent>>, <<NearEvent, FarEvent>>,
                             <<FarEvent, NearEvent>>, <<FarEvent, FarEvent>>}}

\* the schedule render_soundfont_song_samples builds for such a song; the
\* render of usize::MAX frames that would follow is not described
ProbeFarSong ==
  /\ probe = Idle
  /\ \E song \in FarSongs, sample_rate \in SongRates, durations \in SongDurations :
       probe' = [fn |-> "song_schedule",
                 song |-> song, sample_rate |-> sample_rate,
                 default_note_duration_ms |-> durations[1],
                 release_duration_ms |-> durations[2],
                 schedule |-> song_schedule(song, sample_rate, durations[1],
                                            durations[2])]
  /\ UNCHANGED <<phase, engine, mixer, lastCall, requested_profile, renders, app, clock, gui>>

ProbeBuild ==
  /\ probe = Idle
  /\ \E sample_rate \in ProbeRates :
       probe' = [fn |-> "build_synthesizer", sample_rate |-> sample_rate,
                 result |-> build_synthesizer(ProbeProfile, sample_rate)]
  /\ UNCHANGED <<phase, engine, mixer, lastCall, requested_profile, renders, app, clock, gui>>

\* a profile whose polyphony the synthesizer library refuses
QuietProfile ==
  [ProbeProfile EXCEPT !.profile.maximum_polyphony = 4, !.profile.preset = 24]

RenderTargets ==
  { <<ProbeProfile, 15999>>, <<ProbeProfile, 48000>>, <<ProbeProfile, 192001>>,
    <<QuietProfile, 48000>> }

ProbeRender ==
  /\ probe = Idle
  /\ \E actions \in SeqsUpTo(ActionPool, MaxActions), total_frames \in {0, 1, 4, 6},
        target \in RenderTargets :
       probe' = [fn |-> "render_scheduled_actions", profile |-> target[1],
                 sample_rate |-> target[2],
                 total_frames |-> total_frames, actions |-> actions,
                 result |-> render_scheduled_actions(target[1], target[2],
                                                     total_frames, actions, F(68))]
  /\ UNCHANGED <<phase, engine, mixer, lastCall, requested_profile, renders, app, clock, gui>>

\* what the synthesizer wrote into the left and right buffers, in hundredths
RawValues == {0 - 300, 0 - 40, 0, 100}
MixVolumes == {F(0), F(68), F(250), NaN}
MixMultipliers == {F(0), F(110), F(250)}

\* render_scheduled_actions with the output of the synthesizer made explicit
ProbeMix ==
  /\ probe = Idle
  /\ \E master_volume \in MixVolumes, multiplier \in MixMultipliers,
        total_frames \in {1, 2} :
       \E left \in [1..total_frames -> RawValues], right \in [1..total_frames -> RawValues] :
         LET profile == [ProbeProfile EXCEPT
                           !.profile.instrument_gain_multiplier = multiplier]
             result == render_scheduled_actions(
                         profile, 48000, total_frames,
                         << ScheduledAction(0, NoteOn(60, 100)) >>, master_volume)
         IN  probe' = [fn |-> "interleave", master_volume |-> master_volume,
                       multiplier |-> multiplier, total_frames |-> total_frames,
                       left |-> left, right |-> right, result |-> result,
                       samples |-> interleave([i \in 1..total_frames |-> F(left[i])],
                                              [i \in 1..total_frames |-> F(right[i])],
                                              result.value.gain, total_frames)]
  /\ UNCHANGED <<phase, engine, mixer, lastCall, requested_profile, renders, app, clock, gui>>

FrameMillis == {0, 1, 4, 5, 15, 40, 680}
FrameRates == {0, 100, 16000, 44100, 48000, 192000}

ProbeMsToFrames ==
  /\ probe = Idle
  /\ \E milliseconds \in FrameMillis, sample_rate \in FrameRates :
       probe' = [fn |-> "ms_to_frames", milliseconds |-> milliseconds,
                 sample_rate |-> sample_rate,
                 result |-> ms_to_frames(milliseconds, sample_rate)]
  /\ UNCHANGED <<phase, engine, mixer, lastCall, requested_profile, renders, app, clock, gui>>

\* the engine of the end-to-end scenario: one profile "piano", 48000 Hz,
\* master volume 0.5, 680 ms notes, 720 ms release
ScenarioEngine ==
  new([instrument |-> "piano", master_volume |-> F(50), note_duration_ms |-> 680,
       release_duration_ms |-> 720, sample_rate_hz |-> 48000,
       instrument_profiles |->
         [name \in {"piano"} |-> default_instrument_profiles[name]]],
      [device_available |-> TRUE, stream_opens |-> TRUE, rate_supported |-> TRUE,
       fallback_rate |-> 44100,
       fs |-> [existing |-> {"res/soundfonts/piano.sf2"},
               readable |-> {"res/soundfonts/piano.sf2"},
               parsable |-> {"res/soundfonts/piano.sf2"}]]).value

ProbePlayNote ==
  /\ probe = Idle
  /\ \E midi_note \in ProbeNotes :
       probe' = [fn |-> "play_note", midi_note |-> midi_note,
                 out |-> play_note(ScenarioEngine, midi_note)]
  /\ UNCHANGED <<phase, engine, mixer, lastCall, requested_profile, renders, app, clock, gui>>

ProbeReturn ==
  /\ probe # Idle
  /\ probe' = Idle
  /\ UNCHANGED <<phase, engine, mixer, lastCall, requested_profile, renders, app, clock, gui>>

SchedNext ==
  \/ ProbeNote
  \/ ProbeSong
  \/ ProbeFarSong
  \/ ProbeBuild
  \/ ProbeRender
  \/ ProbeMsToFrames
  \/ ProbeMix
  \/ ProbePlayNote
  \/ ProbeReturn

SchedSpec == Init /\ [][SchedNext]_vars

(***************************************************************************)
(* Direct calls of the key chord functions                                 *)
(***************************************************************************)
\* the digits after the "f" of a function key token
DigitSeqs == SeqsUpTo({DigitChars[i] : i \in DOMAIN DigitChars}, MaxDigits)

\* what is written around a function key token in a chord specification
ChordFrames ==
  { [before |-> <<>>, f |-> "f", after |-> <<>>],
    [before |-> <<>>, f |-> "F", after |-> <<>>],
    [before |-> <<" ">>, f |-> "f", after |-> <<" ">>],
    [before |-> <<"c", "t", "r", "l", "+">>, f |-> "f", after |-> <<>>],
    [before |-> <<"S", "h", "i", "f", "t", " ", "+", " ">>, f |-> "F",
     after |-> <<"+", "a", "l", "t">>] }

\* chord specifications that are not function key tokens
OtherChords ==
  { <<>>, <<"g">>, <<"G">>, <<"f", "a">>, <<"f", "-", "1">>, <<"f", "1", "a">>,
    <<"e", "s", "c">>, <<"c", "t", "r", "l">>, <<"f", "1", "+", "f", "2">>,
    <<"c", "t", "r", "l", "+", "+", "f">>, <<"p", "l", "u", "s">>,
    <<"f", " ", "1">> }

ProbeParseChord ==
  /\ probe = Idle
  /\ \/ \E frame \in ChordFrames, digits \in DigitSeqs :
          probe' = [fn |-> "parse_chord", frame |-> frame, digits |-> digits,
                    spec |-> frame.before \o <<frame.f>> \o digits \o frame.after,
                    result |-> parse_chord(frame.before \o <<frame.f>> \o digits
                                           \o frame.after)]
     \/ \E spec \in OtherChords :
          probe' = [fn |-> "parse_chord", frame |-> <<>>, digits |-> <<>>,
                    spec |-> spec, result |-> parse_chord(spec)]
  /\ UNCHANGED <<phase, engine, mixer, lastCall, requested_profile, renders, app, clock, gui>>

KeyEvents ==
  { Character(<<"a">>), Character(<<"A">>), Character(<<"Z">>), Character(<<"1">>),
    Character(<<"!">>), Character(<<" ">>), Character(<<"A", "b">>), Character(<<>>),
    Named("Escape"), Named("Enter"), Named("Space"), Named("F1"), Named("F24"),
    Named("F25"), Named("Shift"), Unidentified }

\* iced::keyboard::Modifiers
Modifiers == [control : BOOLEAN, alt : BOOLEAN, logo : BOOLEAN, shift : BOOLEAN]

ProbeFromKeyEvent ==
  /\ probe = Idle
  /\ \E key \in KeyEvents, modifiers \in Modifiers, ignore_shift_for_char_keys \in BOOLEAN :
       probe' = [fn |-> "from_key_event", key |-> key, modifiers |-> modifiers,
                 ignore_shift_for_char_keys |-> ignore_shift_for_char_keys,
                 result |-> from_key_event(key, modifiers, ignore_shift_for_char_keys)]
  /\ UNCHANGED <<phase, engine, mixer, lastCall, requested_profile, renders, app, clock, gui>>

InputNext ==
  \/ ProbeParseChord
  \/ ProbeFromKeyEvent
  \/ ProbeReturn

InputSpec == Init /\ [][InputNext]_vars

(***************************************************************************)
(* Render calls step by step.  Each caller runs render_scheduled_actions   *)
(* on ProbeProfile at 48000 Hz: the locals of the call (the sorted         *)
(* actions, the synthesizer, cursor, action_index and the buffers) are     *)
(* the fields of renders[caller], and the steps of different callers       *)
(* interleave.                                                             *)
(***************************************************************************)
WalkPool ==
  { ScheduledAction(0, NoteOn(60, 100)),
    ScheduledAction(2, NoteOff(60)),
    ScheduledAction(2, NoteOn(60, 100)) }

\* variant of call_synth: every call uses the synthesizer of the first caller
call_synth_shared(calls, caller) == calls["first"].voices

\* let mut synth: the synthesizer a call works on is the one it built
call_synth(calls, caller) == calls[caller].voices

\* entry of the function up to the first test of the outer while loop
RenderBegin ==
  \E caller \in Callers, actions \in SeqsUpTo(WalkPool, MaxWalkActions),
     total_frames \in {0, 4} :
    /\ renders[caller].pc = "idle"
    /\ renders' =
         [renders EXCEPT ![caller] =
            IF total_frames = 0
            THEN [NoRender EXCEPT !.pc = "done", !.actions = actions]
            ELSE [pc |-> IF build_synthesizer(ProbeProfile, 48000).ok
                         THEN "walk" ELSE "done",
                  total_frames |-> total_frames,
                  actions |-> actions,
                  sorted |-> sort_by(retain(actions, total_frames)),
                  action_index |-> 1,
                  cursor |-> 0,
                  voices |-> new_voices,
                  buffers |-> <<>>]]
    /\ UNCHANGED <<phase, engine, mixer, lastCall, requested_profile, probe, app, clock, gui>>

\* one synth.render call of the outer while loop: the frames up to the next action
RenderAdvance ==
  \E caller \in Callers :
    LET call == renders[caller]
    IN  /\ call.pc = "walk"
        /\ call.action_index <= Len(call.sorted)
        /\ call.sorted[call.action_index].frame > call.cursor
        /\ renders' =
             [renders EXCEPT ![caller] =
                [call EXCEPT
                   !.buffers = Append(call.buffers,
                                      segment(call.cursor,
                                              call.sorted[call.action_index].frame,
                                              call_synth(renders, caller))),
                   !.cursor = call.sorted[call.action_index].frame]]
        /\ UNCHANGED <<phase, engine, mixer, lastCall, requested_profile, probe, app, clock, gui>>

\* one apply_midi_action call of the inner while loop
RenderApply ==
  \E caller \in Callers :
    LET call == renders[caller]
    IN  /\ call.pc = "walk"
        /\ call.action_index <= Len(call.sorted)
        /\ call.sorted[call.action_index].frame <= call.cursor
        /\ renders' =
             [renders EXCEPT ![caller] =
                [call EXCEPT
                   !.voices = voices_after(call_synth(renders, caller),
                                           call.sorted[call.action_index].action),
                   !.action_index = call.action_index + 1]]
        /\ UNCHANGED <<phase, engine, mixer, lastCall, requested_profile, probe, app, clock, gui>>

\* after the loop: the rest of the buffers is rendered and the samples returned
RenderFinish ==
  \E caller \in Callers :
    LET call == renders[caller]
    IN  /\ call.pc = "walk"
        /\ call.action_index > Len(call.sorted)
        /\ renders' =
             [renders EXCEPT ![caller] =
                [call EXCEPT
                   !.pc = "done",
                   !.buffers = IF call.cursor < call.total_frames
                               THEN Append(call.buffers,
                                           segment(call.cursor, call.total_frames,
                                                   call_synth(renders, caller)))
                               ELSE call.buffers]]
        /\ UNCHANGED <<phase, engine, mixer, lastCall, requested_profile, probe, app, clock, gui>>

\* the caller takes the samples; the synthesizer and the buffers are dropped
RenderReturn ==
  \E caller \in Callers :
    /\ renders[caller].pc = "done"
    /\ renders' = [renders EXCEPT ![caller] = NoRender]
    /\ UNCHANGED <<phase, engine, mixer, lastCall, requested_profile, probe, app, clock, gui>>

RenderNext ==
  \/ RenderBegin
  \/ RenderAdvance
  \/ RenderApply
  \/ RenderFinish
  \/ RenderReturn

RenderSpec == Init /\ [][RenderNext]_vars

\* the buffers a list of walk steps fills, starting from the given held keys
RECURSIVE segments_of(_, _, _)
segments_of(steps, i, voices) ==
  IF i > Len(steps) THEN <<>>
  ELSE IF steps[i].kind = "render"
  THEN <<segment(steps[i].from, steps[i].to, voices)>> \o segments_of(steps, i + 1, voices)
  ELSE segments_of(steps, i + 1, voices_after(voices, steps[i].action))

(***************************************************************************)
(* State machine of the GUI: one action per message of update.  The clock  *)
(* is Instant::now() measured from the latest start of playback, and it is *)
(* advanced by the handlers that read it: a Tick of a Timer or Autoplay    *)
(* run and a note input of a Timer run.  AppSpec has every message, at     *)
(* long intervals; TimerSpec, AutoplaySpec and TutorialSpec have the       *)
(* messages of a run in one play mode, at short intervals.                 *)
(***************************************************************************)
MaxClock == 150
MaxWrongNotes == 1

\* the time between two messages (the tick rate is 16 ms; longer pauses
\* are taken late in a run)
TimeSteps == [now \in 0..MaxClock |-> IF now < 24 THEN {0, 7, 12, 130} ELSE {0, 130}]
NoteSteps == [now \in 0..MaxClock |-> IF now < 24 THEN {0, 5} ELSE {0}]
LongSteps == [now \in 0..MaxClock |-> {0, 150}]
NoSteps == [now \in 0..MaxClock |-> {0}]

\* piano keys clicked, and notes played with their keyboard key
ClickNotes == {60, 64, 72, 76}
FewNotes == {60, 72}
KeyNotes == {72}

SongA ==
  SongFile(<<300, 1>>, 96, 4,
           << Event(<<0, 1>>, <<1, 1>>, <<60, 64>>, None),
              Event(<<1, 1>>, <<1, 10>>, <<60>>, Some(100)) >>)

SongB == SongFile(<<300, 1>>, 96, 3, << Event(<<0, 1>>, <<1, 1>>, <<72, 72>>, None) >>)

\* the song library after load_song_library: every song has passed
\* validate_song, and its events are sorted by at_beats
Libraries == { <<>>, <<SongA, SongB>> }

GuiConfigs ==
  { [keybindings |-> {72, 76},
     transpose_song_to_fit_bindings |-> t,
     optimize_bindings_for_song |-> FALSE] : t \in BOOLEAN }

PlayModes == {"Timer", "Tutorial", "Autoplay"}

Launched == app # NoApp

TimerRun(self) ==
  /\ self # NoApp
  /\ self.playback # None
  /\ self.playback[1].mode = "Timer"

AutoplayRun(self) ==
  /\ self # NoApp
  /\ self.playback # None
  /\ self.playback[1].mode = "Autoplay"

TutorialRun(self) ==
  /\ self # NoApp
  /\ self.playback # None
  /\ self.playback[1].mode = "Tutorial"

\* the notes pressed since the tutorial last moved to another event, after a
\* handler that took self to next while midi_notes were pressed
PressedAfter(self, next, midi_notes) ==
  IF ~TutorialRun(next) THEN {}
  ELSE IF ~TutorialRun(self) THEN {}
  ELSE IF next.playback[1].tutorial_event_index
            # self.playback[1].tutorial_event_index THEN {}
  ELSE gui.pressed \cup midi_notes

\* the mode of the run that a tick or a note input, taking self to next, has
\* completed
Completed(self, next) ==
  IF self.playback # None /\ self.prepared_song # None /\ next.playback = None
  THEN self.playback[1].mode
  ELSE ""

AudioUnchanged == UNCHANGED <<phase, engine, mixer, lastCall, requested_profile, probe, renders>>

\* main, up to the first message
Launch ==
  /\ ~Launched
  /\ probe = Idle
  /\ \E config \in GuiConfigs, songs \in Libraries :
       app' = initial_state(config, songs)
  /\ clock' = 0
  /\ gui' = Gui(NoEffects, {}, <<>>, "")
  /\ AudioUnchanged

\* Message::SelectSong(index), and the list_songs chord
SelectSong ==
  /\ Launched
  /\ \E index \in 0..(Len(app.songs) - 1) :
       app' = select_song(app, index)
  /\ gui' = Gui(NoEffects, {}, <<>>, "")
  /\ UNCHANGED clock
  /\ AudioUnchanged

\* start_playback as a step: a playback that starts sets the origin of the
\* clock
Started(self) ==
  /\ app' = start_playback(self, 0)
  /\ clock' = IF start_playback(self, 0) = self THEN clock ELSE 0
  /\ gui' = Gui(NoEffects, {}, <<>>, "")
  /\ AudioUnchanged

\* Message::StartPlayback, and the play_song chord
StartPlayback ==
  /\ Launched
  /\ Started(app)

\* Message::RestartPlayback
RestartPlayback ==
  /\ Launched
  /\ app.playback # None
  /\ Started(app)

\* Message::StopPlayback
StopPlayback ==
  /\ Launched
  /\ app' = stop_playback(app)
  /\ gui' = Gui(NoEffects, {}, <<>>, "")
  /\ UNCHANGED clock
  /\ AudioUnchanged

\* Message::PlayModeSelected(mode) for a mode of modes
PlayModeSelectedFrom(modes) ==
  /\ Launched
  /\ \E mode \in modes : app' = [app EXCEPT !.play_mode = mode]
  /\ gui' = Gui(NoEffects, gui.pressed, gui.played, "")
  /\ UNCHANGED clock
  /\ AudioUnchanged

PlayModeSelected == PlayModeSelectedFrom(PlayModes)

\* Message::TutorialAdvanceOnlyCorrectChanged(value)
TutorialAdvanceOnlyCorrectChanged ==
  /\ Launched
  /\ \E value \in BOOLEAN :
       app' = [app EXCEPT !.tutorial_options.only_advance_on_correct_note = value]
  /\ gui' = Gui(NoEffects, gui.pressed, gui.played, "")
  /\ UNCHANGED clock
  /\ AudioUnchanged

\* Message::TransposeSongToFitBindingsChanged(value)
TransposeSongToFitBindingsChanged ==
  /\ Launched
  /\ \E value \in BOOLEAN :
       app' = rebuild_song_context(
                [app EXCEPT !.transpose_song_to_fit_bindings = value])
  /\ gui' = Gui(NoEffects, gui.pressed, gui.played, "")
  /\ UNCHANGED clock
  /\ AudioUnchanged

\* Message::OptimizeBindingsForSongChanged(value)
OptimizeBindingsForSongChanged ==
  /\ Launched
  /\ \E value \in BOOLEAN :
       app' = rebuild_song_context(
                [app EXCEPT !.optimize_bindings_for_song = value])
  /\ gui' = Gui(NoEffects, gui.pressed, gui.played, "")
  /\ UNCHANGED clock
  /\ AudioUnchanged

\* the wrong notes of a run are counted up to MaxWrongNotes
WithinWrongNotes(next) ==
  TimerRun(next) => next.playback[1].score.wrong_notes <= MaxWrongNotes

\* a note input at the instant now: process_note_input and the note played
NoteInput(self, midi_note, now) ==
  LET out == process_note_input(self, midi_note, now)
  IN  /\ WithinWrongNotes(out.self)
      /\ app' = out.self
      /\ gui' = Gui(Effects(<<>>, <<>>, out.play_out_loud),
                    PressedAfter(self, out.self, {midi_note}), gui.played,
                    Completed(self, out.self))

\* Message::PlayNoteFromClick(midi_note) for a note of notes, after a time
\* of steps
ClickNote(notes, steps) ==
  /\ Launched
  /\ \E midi_note \in notes, dt \in IF TimerRun(app) THEN steps[clock] ELSE {0} :
       /\ clock + dt <= MaxClock
       /\ clock' = clock + dt
       /\ NoteInput(app, midi_note, clock + dt)
  /\ AudioUnchanged

PlayNoteFromClick == ClickNote(FewNotes, NoSteps)

\* keyboard::Event::KeyPressed of a chord bound to a note
KeyPressed ==
  /\ Launched
  /\ \E midi_note \in KeyNotes \cap app.bindings.note_to_chords :
       NoteInput([app EXCEPT !.held_notes = @ \cup {midi_note}], midi_note, clock)
  /\ UNCHANGED clock
  /\ AudioUnchanged

\* keyboard::Event::KeyReleased of a chord bound to a note
KeyReleased ==
  /\ Launched
  /\ \E midi_note \in KeyNotes \cap app.bindings.note_to_chords :
       app' = [app EXCEPT !.held_notes = @ \ {midi_note}]
  /\ gui' = Gui(NoEffects, gui.pressed, gui.played, "")
  /\ UNCHANGED clock
  /\ AudioUnchanged

\* Message::Tick(now), after a time of steps
TickAfter(steps) ==
  /\ Launched
  /\ \E dt \in IF TimerRun(app) \/ AutoplayRun(app) THEN steps[clock] ELSE {0} :
       /\ clock + dt <= MaxClock
       /\ clock' = clock + dt
       /\ LET out == handle_tick(app, clock + dt)
          IN  /\ app' = out.self
              /\ gui' = Gui(out.effects, PressedAfter(app, out.self, {}),
                            IF out.self.playback = None THEN <<>>
                            ELSE gui.played \o out.effects.triggered,
                            Completed(app, out.self))
  /\ AudioUnchanged

Tick == TickAfter(LongSteps)

\* a PianoApp that no run of the program reaches: its prepared song has no
\* events (the events of the song have no notes)
SilentSongFile == SongFile(<<300, 1>>, 96, 4, << Event(<<0, 1>>, <<1, 1>>, <<>>, None) >>)

StartArguments ==
  LET config == CHOOSE c \in GuiConfigs : c.transpose_song_to_fit_bindings
      loaded == initial_state(config, <<SongA, SongB>>)
      running == start_playback(loaded, 0)
      score == [TimerScore(3) EXCEPT !.missed_notes = 3]
  IN  { [self EXCEPT !.prepared_song = prepared,
                     !.held_notes = held,
                     !.last_timer_score = last,
                     !.play_mode = mode] :
          self \in {loaded, running},
          prepared \in {None, Some(prepare_song(SilentSongFile)),
                        Some(prepare_song(SongB))},
          held \in {{}, {72}},
          last \in {None, Some(score)},
          mode \in PlayModes }

\* a direct call of start_playback
ProbeStartPlayback ==
  /\ ~Launched
  /\ probe = Idle
  /\ \E self \in StartArguments :
       probe' = [fn |-> "start_playback", self |-> self,
                 result |-> start_playback(self, 0)]
  /\ UNCHANGED <<phase, engine, mixer, lastCall, requested_profile, renders, app, clock, gui>>

AppNext ==
  \/ Launch
  \/ SelectSong
  \/ StartPlayback
  \/ RestartPlayback
  \/ StopPlayback
  \/ PlayModeSelected
  \/ TutorialAdvanceOnlyCorrectChanged
  \/ TransposeSongToFitBindingsChanged
  \/ OptimizeBindingsForSongChanged
  \/ PlayNoteFromClick
  \/ KeyPressed
  \/ KeyReleased
  \/ Tick
  \/ ProbeStartPlayback
  \/ ProbeReturn

AppSpec == Init /\ [][AppNext]_vars

\* a Timer run: the play mode is Timer from the start
TimerNote == ClickNote(ClickNotes, NoteSteps)

TimerTick == TickAfter(TimeSteps)

TimerNext ==
  \/ Launch
  \/ SelectSong
  \/ StartPlayback
  \/ TransposeSongToFitBindingsChanged
  \/ TimerNote
  \/ TimerTick

TimerSpec == Init /\ [][TimerNext]_vars

\* an Autoplay run
AutoplaySelected == PlayModeSelectedFrom({"Autoplay"})

AutoplayNote == ClickNote(FewNotes, NoSteps)

AutoplayTick == TickAfter(TimeSteps)

AutoplayNext ==
  \/ Launch
  \/ SelectSong
  \/ AutoplaySelected
  \/ StartPlayback
  \/ TransposeSongToFitBindingsChanged
  \/ AutoplayNote
  \/ AutoplayTick

AutoplaySpec == Init /\ [][AutoplayNext]_vars

\* a Tutorial run
TutorialSelected == PlayModeSelectedFrom({"Tutorial"})

TutorialNote == ClickNote(ClickNotes, NoSteps)

TutorialTick == TickAfter(NoSteps)

TutorialNext ==
  \/ Launch
  \/ SelectSong
  \/ TutorialSelected
  \/ StartPlayback
  \/ TutorialAdvanceOnlyCorrectChanged
  \/ TransposeSongToFitBindingsChanged
  \/ TutorialNote
  \/ TutorialTick

TutorialSpec == Init /\ [][TutorialNext]_vars

\* Tutorial runs that are left to end by themselves: a song is selected and
\* playback is started only while nothing is playing, and the player goes on
\* pressing notes the tutorial waits for
SelectSongWhenStopped ==
  /\ Launched
  /\ app.playback = None
  /\ SelectSong

StartPlaybackWhenStopped ==
  /\ Launched
  /\ app.playback = None
  /\ Started(app)

\* the notes of the event the tutorial is at
CurrentNotes(self) ==
  NoteSet(self.prepared_song[1].events[self.playback[1].tutorial_event_index + 1].notes)

\* a note input of a note the tutorial waits for
PressExpected ==
  /\ TutorialRun(app)
  /\ \E midi_note \in CurrentNotes(app) \ app.playback[1].tutorial_matched :
       NoteInput(app, midi_note, clock)
  /\ UNCHANGED clock
  /\ AudioUnchanged

TutorialRunNext ==
  \/ Launch
  \/ SelectSongWhenStopped
  \/ TutorialSelected
  \/ StartPlaybackWhenStopped
  \/ TutorialAdvanceOnlyCorrectChanged
  \/ TransposeSongToFitBindingsChanged
  \/ TutorialNote
  \/ TutorialTick

TutorialRunSpec == Init /\ [][TutorialRunNext]_vars /\ WF_vars(PressExpected)

(***************************************************************************)
(* Properties                                                              *)
(***************************************************************************)
PlayOps ==
  {"play_note", "play_note_with_velocity_duration", "play_metronome_tick", "play_song"}

\* C1: AudioEngine::new fails when config.instrument is not a key of
\* config.instrument_profiles, and in every state of a constructed engine the
\* active profile name is a key of the profiles map (current_profile is Some).
ActiveProfileAlwaysLoaded ==
  /\ (lastCall.op = "new"
        /\ lastCall.args.instrument \notin DOMAIN lastCall.args.instrument_profiles)
     => (~lastCall.ok /\ phase = "failed")
  /\ phase = "running"
     => /\ engine.active_profile_name \in DOMAIN engine.profiles
        /\ current_profile(engine) # None

\* C1 witness: a running engine whose active profile was just switched
ActiveProfileSwitched ==
  /\ phase = "running"
  /\ lastCall.op = "set_active_profile"
  /\ lastCall.ok
  /\ engine.active_profile_name = "acoustic_guitar"
  /\ DOMAIN engine.profiles = ProfileNames

\* C2: set_active_profile(name) with a name that is not a key returns an error
\* and leaves the whole engine state as it was; with a name that is a key it
\* returns Ok and only active_profile_name changes, to that name.
SetActiveProfileEffect ==
  [][lastCall'.op = "set_active_profile"
       => /\ mixer' = mixer
          /\ phase' = phase
          /\ IF lastCall'.args \notin DOMAIN engine.profiles
             THEN ~lastCall'.ok /\ engine' = engine
             ELSE /\ lastCall'.ok
                  /\ engine' = [engine EXCEPT !.active_profile_name = lastCall'.args]]_vars

\* C2 witness: an unknown name was rejected by a running engine
UnknownProfileRejected ==
  /\ phase = "running"
  /\ lastCall.op = "set_active_profile"
  /\ lastCall.args = "nonexistent"
  /\ ~lastCall.ok
  /\ engine.active_profile_name = "piano"

\* C3: every play_note / play_note_with_velocity_duration / play_metronome_tick /
\* play_song call renders with the profile named by the most recent successful
\* set_active_profile call, or by the construction if there was none; a failed
\* set_active_profile does not change it.
PlayUsesRequestedProfile ==
  lastCall.op \in PlayOps
    => /\ requested_profile \in DOMAIN engine.profiles
       /\ lastCall.op # "play_song" => lastCall.trace.call.called
       /\ lastCall.trace.call.called
          => lastCall.trace.call.profile = engine.profiles[requested_profile]

\* C3 witness: a note rendered with the guitar profile of a two-profile engine
NoteRenderedWithGuitar ==
  /\ lastCall.op = "play_note"
  /\ lastCall.trace.call.called
  /\ requested_profile = "acoustic_guitar"
  /\ DOMAIN engine.profiles = ProfileNames
  /\ lastCall.trace.call.profile.profile.preset = 24

\* C4 as stated: the master volume is in [0.0, 2.5] in every state of a
\* constructed engine, for any AudioConfig passed to AudioEngine::new.
MasterVolumeAlwaysInRange ==
  phase = "running"
    => /\ InUnitRange(engine.default_volume)
       /\ (lastCall.op = "set_master_volume" /\ ~lastCall.args.nan)
          => engine.default_volume = F(Min(Max(lastCall.args.v, 0), 250))

\* C4 as amended: AudioEngine::new stores config.master_volume unchanged;
\* set_master_volume(v) stores min(max(v, 0.0), 2.5) for every v that is not
\* NaN and NaN for NaN; once the volume is in [0.0, 2.5] it stays there under
\* every operation other than set_master_volume(NaN).
MasterVolumeClamped ==
  /\ [](phase = "running"
          => /\ lastCall.op = "new"
                => engine.default_volume = lastCall.args.master_volume
             /\ lastCall.op = "set_master_volume"
                => engine.default_volume =
                     IF lastCall.args.nan THEN NaN
                     ELSE F(Min(Max(lastCall.args.v, 0), 250)))
  /\ [][(/\ phase = "running"
         /\ InUnitRange(engine.default_volume)
         /\ ~(lastCall'.op = "set_master_volume" /\ lastCall'.args.nan))
          => InUnitRange(engine'.default_volume)]_vars

\* C4 witness: a volume above the range was clamped to 2.5
VolumeClampedToMaximum ==
  /\ phase = "running"
  /\ lastCall.op = "set_master_volume"
  /\ lastCall.args = F(400)
  /\ engine.default_volume = F(250)

\* C5: when rendering fails inside a play operation (unsupported sample rate, or
\* no active profile) the call returns, adds no buffer to the mixer and leaves
\* the engine state unchanged.
FailedRenderChangesNothing ==
  [][(lastCall'.op \in PlayOps /\ ~lastCall'.ok)
       => /\ engine' = engine
          /\ mixer' = mixer
          /\ phase' = phase
          /\ lastCall'.added = <<>>]_vars

\* C5 witness: a note render failed on an unsupported stream rate while another
\* operation had succeeded before
NoteRenderFailed ==
  /\ phase = "running"
  /\ lastCall.op = "play_note_with_velocity_duration"
  /\ lastCall.trace.call.called
  /\ ~lastCall.ok
  /\ lastCall.error = SampleRateError
  /\ engine.stream.sample_rate = 384000

\* C6: build_synthesizer fails with the sample-rate error exactly for the rates
\* below 16000 or above 192000, and render_scheduled_actions with
\* total_frames > 0 returns that error instead of samples.
SampleRateChecked ==
  /\ probe.fn = "build_synthesizer"
     => IF probe.sample_rate < 16000 \/ probe.sample_rate > 192000
        THEN ~probe.result.ok /\ probe.result.error = SampleRateError
        ELSE probe.result.error # SampleRateError
  /\ (probe.fn = "render_scheduled_actions" /\ probe.total_frames > 0)
     => IF probe.sample_rate < 16000 \/ probe.sample_rate > 192000
        THEN ~probe.result.ok /\ probe.result.error = SampleRateError
        ELSE /\ probe.result.error # SampleRateError
             /\ probe.profile = ProbeProfile
                => probe.result.ok /\ probe.result.value.len = 2 * probe.total_frames

\* C6 witness: a render of a non-empty buffer at 192001 Hz was refused
RenderRefusedAboveRange ==
  /\ probe.fn = "render_scheduled_actions"
  /\ probe.total_frames > 0
  /\ probe.actions # <<>>
  /\ probe.sample_rate = 192001
  /\ ~probe.result.ok

\* C7: scheduling a single note gives exactly two actions, a NoteOn at frame 0
\* and a NoteOff at frames(max(hold_ms, 40), r), and total_frames is that frame
\* plus frames(max(release_ms, 160), r); play_note(60) at 48000 Hz with 680 ms
\* notes and 720 ms release gives 32640 + 34560 = 67200 frames.
SingleNoteSchedule ==
  /\ probe.fn = "render_soundfont_note_samples"
     => LET call == probe.trace.call
        IN  /\ call.called
            /\ Len(call.actions) = 2
            /\ call.actions[1].frame = 0
            /\ call.actions[1].action.type = "NoteOn"
            /\ call.actions[1].action.key = probe.midi_note
            /\ call.actions[2].action = NoteOff(probe.midi_note)
            /\ call.actions[2].frame =
                 ms_to_frames(Max(probe.note_duration_ms, 40), probe.sample_rate)
            /\ call.total_frames =
                 call.actions[2].frame
                 + ms_to_frames(Max(probe.release_duration_ms, 160), probe.sample_rate)
            /\ (probe.note_duration_ms = 680 /\ probe.release_duration_ms = 720
                  /\ probe.sample_rate = 48000)
               => call.actions[2].frame = 32640 /\ call.total_frames = 67200
  /\ probe.fn = "play_note"
     => LET call == probe.out.trace.call
        IN  /\ call.called
            /\ Len(call.actions) = 2
            /\ call.actions[1] = ScheduledAction(0, NoteOn(probe.midi_note, 112))
            /\ call.actions[2] = ScheduledAction(32640, NoteOff(probe.midi_note))
            /\ call.total_frames = 67200

\* C7 witness: play_note(60) of the scenario engine was scheduled on 67200 frames
ScenarioNoteScheduled ==
  /\ probe.fn = "play_note"
  /\ probe.midi_note = 60
  /\ probe.out.trace.call.total_frames = 67200
  /\ Len(probe.out.added) = 1

\* the notes of the events from index i on, in song order, each with the index
\* of its event
RECURSIVE NotesFrom(_, _)
NotesFrom(events, i) ==
  IF i > Len(events) THEN <<>>
  ELSE [k \in 1..Len(events[i].notes) |-> [key |-> events[i].notes[k], event |-> i]]
       \o NotesFrom(events, i + 1)

\* round(x * y * r) for rationals x, y >= 0
FramesOfProduct(x, y, r) == RoundDiv(x[1] * y[1] * r, x[2] * y[2])

\* C8: the song schedule holds exactly one NoteOn/NoteOff pair per note of each
\* event that has notes and nothing for events without notes; both actions of
\* a pair carry the note's key, and the NoteOn velocity is the event's velocity
\* if present, else the song's default_velocity, clamped to [1, 127].
SongSchedulePairs ==
  probe.fn = "render_soundfont_song_samples"
    => LET notes == NotesFrom(probe.song.events, 1)
           acts == probe.schedule.actions
       IN  /\ Len(acts) = 2 * Len(notes)
           /\ \A k \in 1..Len(notes) :
                LET event == probe.song.events[notes[k].event]
                    wanted == IF event.velocity = None
                              THEN probe.song.meta.default_velocity
                              ELSE event.velocity[1]
                IN  /\ acts[2 * k - 1].action =
                         NoteOn(notes[k].key, Min(Max(wanted, 1), 127))
                    /\ acts[2 * k].action = NoteOff(notes[k].key)
           /\ probe.trace.call.called <=> notes # <<>>
           /\ probe.trace.call.called => probe.trace.call.actions = acts

\* C8 witness: a song with an event without notes and an event with two notes
\* that takes the song's default velocity 0, clamped to 1
SongWithSilentEventScheduled ==
  /\ probe.fn = "render_soundfont_song_samples"
  /\ probe.song.meta.default_velocity = 0
  /\ Len(probe.song.events) = 2
  /\ probe.song.events[1].notes = <<>>
  /\ probe.song.events[2].notes = <<60, 64>>
  /\ probe.song.events[2].velocity = None
  /\ Len(probe.schedule.actions) = 4
  /\ probe.schedule.actions[1].action.velocity = 1

\* the example of C9: tempo 120, one event at beat 0 with notes [60, 64] and
\* duration 1.0 has both NoteOn at frame 0 and both NoteOff at frames(500 ms, r)
ScenarioSongFrames ==
  (/\ probe.song.meta.tempo_bpm = <<120, 1>>
   /\ probe.song.events = << Event(<<0, 1>>, <<1, 1>>, <<60, 64>>, None) >>)
    => LET acts == probe.schedule.actions
       IN  /\ Len(acts) = 4
           /\ acts[1].frame = 0 /\ acts[3].frame = 0
           /\ acts[2].frame = ms_to_frames(500, probe.sample_rate)
           /\ acts[4].frame = ms_to_frames(500, probe.sample_rate)

MaxNoteOffFrame(acts) ==
  LET offs == {acts[i].frame : i \in {j \in DOMAIN acts : acts[j].action.type = "NoteOff"}}
  IN  CHOOSE m \in offs : \A x \in offs : x <= m

MsToFramesRounds ==
  probe.fn = "ms_to_frames"
    => LET n == probe.milliseconds * probe.sample_rate
           k == probe.result
       IN  /\ k >= 1
           /\ IF 2 * n < 1000 THEN k = 1
              ELSE 2000 * k - 1000 <= 2 * n /\ 2 * n < 2000 * k + 1000

\* C11 witness: zero milliseconds at 48000 Hz gave one frame
ZeroMillisecondsOneFrame ==
  /\ probe.fn = "ms_to_frames"
  /\ probe.milliseconds = 0
  /\ probe.sample_rate = 48000
  /\ probe.result = 1

\* C12: for master_volume and instrument_gain_multiplier in [0, 2.5] and any
\* raw left/right values of the synthesizer, the buffer has two samples per
\* frame, the left one first; each is raw * g clamped to [-1.0, 1.0] with
\* g = clamp(master_volume * gain_multiplier, 0, 2.5), so it lies in [-1.0, 1.0].
SamplesWithinUnitRange ==
  (/\ probe.fn = "interleave"
   /\ InUnitRange(probe.master_volume)
   /\ InUnitRange(probe.multiplier))
    => LET product == probe.master_volume.v * probe.multiplier.v
           g == IF product > 25000 THEN 25000 ELSE IF product < 0 THEN 0 ELSE product
           wanted(raw) == IF raw * g > 1000000 THEN 1000000
                          ELSE IF raw * g < 0 - 1000000 THEN 0 - 1000000
                          ELSE raw * g
       IN  /\ probe.result.ok
           /\ probe.result.value.len = 2 * probe.total_frames
           /\ Len(probe.samples) = probe.result.value.len
           /\ \A frame \in 1..probe.total_frames :
                /\ probe.samples[2 * frame - 1] = F(wanted(probe.left[frame]))
                /\ probe.samples[2 * frame] = F(wanted(probe.right[frame]))
           /\ \A i \in DOMAIN probe.samples :
                /\ ~probe.samples[i].nan
                /\ 0 - 1000000 <= probe.samples[i].v
                /\ probe.samples[i].v <= 1000000

\* C12 witness: at full gain a raw left value of -3.0 came out as -1.0 before a
\* raw right value of 1.0 that came out as 1.0
LoudFrameClamped ==
  /\ probe.fn = "interleave"
  /\ probe.master_volume = F(250)
  /\ probe.multiplier = F(250)
  /\ probe.total_frames = 2
  /\ probe.left[2] = 0 - 300
  /\ probe.right[2] = 100
  /\ probe.samples[3] = F(0 - 1000000)
  /\ probe.samples[4] = F(1000000)

\* C13: render_scheduled_actions with total_frames = 0 returns Ok with an empty
\* buffer for every profile, action list and sample rate, the unsupported
\* rates included; no synthesizer is built and no action is applied.
EmptyRenderIsOk ==
  (probe.fn = "render_scheduled_actions" /\ probe.total_frames = 0)
    => /\ probe.result.ok
       /\ probe.result.value.len = 0
       /\ ~probe.result.value.built
       /\ probe.result.value.steps = <<>>

\* C13 witness: an empty render of three actions at 192001 Hz returned Ok
EmptyRenderAtUnsupportedRate ==
  /\ probe.fn = "render_scheduled_actions"
  /\ probe.total_frames = 0
  /\ probe.sample_rate = 192001
  /\ Len(probe.actions) = 3
  /\ probe.result.ok
  /\ probe.result.value.len = 0

\* C14: play_song on a song without events, or whose events all have no notes,
\* builds no synthesizer, submits nothing to the mixer and leaves the engine
\* unchanged; for every other song whose render succeeds exactly one buffer is
\* submitted.
PlaySongNoOpWhenSilent ==
  [][lastCall'.op = "play_song"
       => LET song == lastCall'.args
              silent == \A i \in DOMAIN song.events : song.events[i].notes = <<>>
          IN  /\ engine' = engine
              /\ silent => /\ mixer' = mixer
                           /\ lastCall'.added = <<>>
                           /\ ~lastCall'.trace.call.called
                           /\ lastCall'.trace.result.ok
                           /\ ~lastCall'.trace.result.value.built
              /\ (~silent /\ lastCall'.ok)
                 => /\ mixer' = mixer + 1
                    /\ Len(lastCall'.added) = 1
                    /\ lastCall'.added[1].len > 0
                    /\ lastCall'.trace.result.value.built]_vars

\* C14 witness: a song whose only event has no notes was played while a buffer
\* was sounding, and nothing was added
SilentSongPlayed ==
  /\ phase = "running"
  /\ lastCall.op = "play_song"
  /\ Len(lastCall.args.events) = 1
  /\ lastCall.args.events[1].notes = <<>>
  /\ lastCall.added = <<>>
  /\ mixer = 1

\* C15: play_note, play_note_with_velocity_duration, play_metronome_tick and
\* play_song leave the profiles map, the active profile name, the master volume,
\* the default note duration and the release duration as they were, whether
\* the render succeeds or fails; after construction only set_active_profile and
\* set_master_volume change the engine.
OnlySettersChangeEngine ==
  [][/\ lastCall'.op \in PlayOps
        => /\ engine'.profiles = engine.profiles
           /\ engine'.active_profile_name = engine.active_profile_name
           /\ engine'.default_volume = engine.default_volume
           /\ engine'.default_duration_ms = engine.default_duration_ms
           /\ engine'.release_duration_ms = engine.release_duration_ms
     /\ (phase = "running" /\ engine' # engine)
        => lastCall'.op \in {"set_active_profile", "set_master_volume"}]_vars

\* C15 witness: a metronome tick was rendered and submitted by an engine whose
\* profile and volume had been set before, and both are still in place
TickAfterSetters ==
  /\ lastCall.op = "play_metronome_tick"
  /\ lastCall.ok
  /\ Len(lastCall.added) = 1
  /\ engine.active_profile_name = "acoustic_guitar"
  /\ requested_profile = "acoustic_guitar"
  /\ engine.default_volume = F(250)

\* C16: every render call works on a synthesizer and on buffers of its own:
\* however the steps of the calls interleave, what a finished call has
\* rendered is what render_scheduled_actions gives for that call's own
\* total_frames and actions, starting from a synthesizer that holds no key.
RenderCallsIsolated ==
  \A caller \in Callers :
    LET call == renders[caller]
        alone == render_scheduled_actions(ProbeProfile, 48000, call.total_frames,
                                          call.actions, F(68))
    IN  /\ call.pc = "done"
           => /\ alone.ok
              /\ call.buffers = segments_of(alone.value.steps, 1, {})
        /\ call.pc = "idle" => call = NoRender

\* C16 witness: the second call finished a silent buffer while the first call
\* was in progress with key 60 held
SilentCallBesideSoundingCall ==
  /\ renders["first"].pc = "walk"
  /\ renders["first"].voices = {60}
  /\ renders["first"].cursor = 2
  /\ renders["second"].pc = "done"
  /\ renders["second"].actions = <<>>
  /\ renders["second"].buffers = <<segment(0, 4, {})>>

\* the names of the function keys a chord can hold
FunctionKeyNames ==
  << "f1", "f2", "f3", "f4", "f5", "f6", "f7", "f8", "f9", "f10", "f11", "f12",
     "f13", "f14", "f15", "f16", "f17", "f18", "f19", "f20", "f21", "f22", "f23",
     "f24" >>

\* the number written by a sequence of decimal digits, 1000 for 1000 and more
RECURSIVE NumberOf(_)
NumberOf(digits) ==
  IF digits = <<>> THEN 0
  ELSE Min(1000, 10 * NumberOf(SubSeq(digits, 1, Len(digits) - 1))
                 + digit_value(digits[Len(digits)]))

\* C17: parse_chord maps a token "f<n>" with n in 1..24 to a chord whose key is
\* "f<n>", maps the token "f" to the character key "f", and returns an error
\* for "f<n>" with n outside 1..24; modifiers written around the token are set
\* on the chord and nothing else is.
ParseChordFunctionKeys ==
  (probe.fn = "parse_chord" /\ probe.frame # <<>>)
    => LET n == NumberOf(probe.digits)
       IN  /\ probe.digits = <<>>
              => probe.result.ok /\ probe.result.value.key = "f"
           /\ (probe.digits # <<>> /\ 1 <= n /\ n <= 24)
              => probe.result.ok /\ probe.result.value.key = FunctionKeyNames[n]
           /\ (probe.digits # <<>> /\ ~(1 <= n /\ n <= 24)) => ~probe.result.ok
           /\ probe.result.ok
              => probe.result.value.modifiers =
                   KeyModifiers(probe.frame.before # <<>> /\ probe.frame.before[1] = "c",
                                probe.frame.after # <<>> /\ probe.frame.after[1] = "+",
                                FALSE,
                                probe.frame.before # <<>> /\ probe.frame.before[1] = "S")

\* C17 witness: "Shift + F24+alt" was parsed as the function key f24
LastFunctionKeyParsed ==
  /\ probe.fn = "parse_chord"
  /\ probe.frame # <<>>
  /\ probe.frame.f = "F"
  /\ probe.frame.after # <<>>
  /\ probe.digits = <<"2", "4">>
  /\ probe.result.ok
  /\ probe.result.value = KeyChord("f24", KeyModifiers(FALSE, TRUE, FALSE, TRUE))

\* the ASCII lower case of the characters of the key events
LowerOf ==
  ("a" :> "a") @@ ("A" :> "a") @@ ("Z" :> "z") @@ ("1" :> "1") @@ ("!" :> "!")
  @@ (" " :> " ")

\* ctrl, alt and logo of the chord are those of the event
OtherModifiersKept ==
  /\ probe.result[1].modifiers.ctrl = probe.modifiers.control
  /\ probe.result[1].modifiers.alt = probe.modifiers.alt
  /\ probe.result[1].modifiers.logo = probe.modifiers.logo

\* C18 as stated: with ignore_shift_for_char_keys = true every single-character
\* key event gives a chord whose key is the ASCII-lowercased character and
\* whose shift is false, with ctrl, alt and logo kept; with the flag false, or
\* for a key that is not a single character, shift is kept.
ShiftDroppedForEveryCharacter ==
  (probe.fn = "from_key_event" /\ probe.result # None)
    => LET single == probe.key.kind = "Character" /\ Len(probe.key.text) = 1
       IN  /\ OtherModifiersKept
           /\ single => probe.result[1].key = LowerOf[probe.key.text[1]]
           /\ probe.result[1].modifiers.shift =
                IF single /\ probe.ignore_shift_for_char_keys THEN FALSE
                ELSE probe.modifiers.shift

\* C18 as amended: with ignore_shift_for_char_keys = true every key event of a
\* single character other than the space gives a chord whose key is the
\* ASCII-lowercased character and whose shift is false; a single space gives
\* the key "space" and keeps shift, as does every key with the flag false and
\* every key that is not a single character; ctrl, alt and logo are always kept.
ShiftDroppedForCharacterKeys ==
  /\ (probe.fn = "from_key_event" /\ probe.result # None)
     => LET single == probe.key.kind = "Character" /\ Len(probe.key.text) = 1
            space == single /\ probe.key.text[1] = " "
        IN  /\ OtherModifiersKept
            /\ (single /\ ~space) => probe.result[1].key = LowerOf[probe.key.text[1]]
            /\ space => probe.result[1].key = "space"
            /\ probe.result[1].modifiers.shift =
                 IF single /\ ~space /\ probe.ignore_shift_for_char_keys THEN FALSE
                 ELSE probe.modifiers.shift
  /\ (probe.fn = "from_key_event" /\ probe.key.kind = "Character"
        /\ Len(probe.key.text) = 1)
     => probe.result # None

\* C18 witness: ctrl+shift+"A" with the flag set gave the chord ctrl+a
ShiftedCharacterNormalized ==
  /\ probe.fn = "from_key_event"
  /\ probe.key = Character(<<"A">>)
  /\ probe.ignore_shift_for_char_keys
  /\ probe.modifiers.shift
  /\ probe.modifiers.control
  /\ probe.result = Some(KeyChord("a", KeyModifiers(TRUE, FALSE, FALSE, FALSE)))

\* the actions the synthesizer received, in the order it received them
AppliedActions(steps) ==
  LET applied == SelectSeq(steps, LAMBDA step : step.kind = "apply")
  IN  [i \in DOMAIN applied |-> applied[i].action]

\* the keys the synthesizer holds after the steps made up to frame f
RECURSIVE HeldAfterFrame(_, _, _, _)
HeldAfterFrame(steps, i, f, voices) ==
  IF i > Len(steps) THEN voices
  ELSE IF steps[i].kind = "apply" /\ steps[i].cursor <= f
  THEN HeldAfterFrame(steps, i + 1, f, voices_after(voices, steps[i].action))
  ELSE HeldAfterFrame(steps, i + 1, f, voices)

\* C19: after the sort the actions are in non-decreasing frame order and a
\* NoteOff never comes after a NoteOn of the same frame; the synthesizer
\* receives the actions in that order, so a key with a NoteOff and a NoteOn on
\* the same frame is held when that frame's actions have been applied.
NoteOffBeforeNoteOn ==
  (probe.fn = "render_scheduled_actions" /\ probe.result.ok
     /\ probe.result.value.built)
    => LET sorted == probe.result.value.sorted
           steps == probe.result.value.steps
           kept == SelectSeq(probe.actions,
                             LAMBDA entry : entry.frame <= probe.total_frames)
       IN  /\ Len(sorted) = Len(kept)
           /\ \A entry \in {kept[i] : i \in DOMAIN kept} :
                Cardinality({i \in DOMAIN kept : kept[i] = entry})
                  = Cardinality({i \in DOMAIN sorted : sorted[i] = entry})
           /\ \A i, j \in DOMAIN sorted :
                i < j => /\ sorted[i].frame <= sorted[j].frame
                         /\ ~(/\ sorted[i].frame = sorted[j].frame
                              /\ sorted[i].action.type = "NoteOn"
                              /\ sorted[j].action.type = "NoteOff")
           /\ AppliedActions(steps) = [i \in DOMAIN sorted |-> sorted[i].action]
           /\ \A i, j \in DOMAIN kept :
                (/\ kept[i].frame = kept[j].frame
                 /\ kept[i].action.type = "NoteOn"
                 /\ kept[j].action.type = "NoteOff"
                 /\ kept[i].action.key = kept[j].action.key)
                  => kept[i].action.key
                       \in HeldAfterFrame(steps, 1, kept[i].frame, {})

\* C19 witness: a key struck at frame 0 and given, in this order, a NoteOn and
\* a NoteOff at frame 2 was released and then struck again at frame 2
KeyRestruckOnSameFrame ==
  /\ probe.fn = "render_scheduled_actions"
  /\ probe.total_frames = 4
  /\ probe.actions = << ScheduledAction(0, NoteOn(60, 100)),
                        ScheduledAction(2, NoteOn(60, 100)),
                        ScheduledAction(2, NoteOff(60)) >>
  /\ probe.result.ok
  /\ probe.result.value.sorted[2] = ScheduledAction(2, NoteOff(60))
  /\ probe.result.value.sorted[3] = ScheduledAction(2, NoteOn(60, 100))
  /\ 60 \in HeldAfterFrame(probe.result.value.steps, 1, 2, {})

\* the number of frames the synthesizer has rendered before step i
RECURSIVE RenderedBefore(_, _)
RenderedBefore(steps, i) ==
  IF i <= 1 THEN 0
  ELSE IF steps[i - 1].kind = "render" THEN steps[i - 1].to
  ELSE RenderedBefore(steps, i - 1)

\* C20: in the render walk every retained action is applied exactly once, and
\* an action with frame f is applied when the synthesizer has rendered exactly
\* f frames; every render call starts where the previous one ended and ends
\* later, at total_frames at most, so the cursor never decreases and never
\* exceeds total_frames.
ActionsAppliedAtTheirFrame ==
  (probe.fn = "render_scheduled_actions" /\ probe.result.ok
     /\ probe.result.value.built)
    => LET sorted == probe.result.value.sorted
           steps == probe.result.value.steps
           applied == {i \in DOMAIN steps : steps[i].kind = "apply"}
           order(i) == Cardinality({j \in applied : j <= i})
       IN  /\ Cardinality(applied) = Len(sorted)
           /\ Len(sorted)
                = Len(SelectSeq(probe.actions,
                                LAMBDA entry : entry.frame <= probe.total_frames))
           /\ \A i \in applied :
                /\ steps[i].action = sorted[order(i)].action
                /\ RenderedBefore(steps, i) = sorted[order(i)].frame
                /\ steps[i].cursor = sorted[order(i)].frame
           /\ \A i \in DOMAIN steps \ applied :
                /\ steps[i].from = RenderedBefore(steps, i)
                /\ steps[i].from < steps[i].to
                /\ steps[i].to <= probe.total_frames

\* C20 witness: of three actions given out of order the one at frame 7 was
\* dropped from a render of 6 frames, and the others were applied after 0 and
\* after 4 rendered frames
ActionsAppliedBetweenRenders ==
  /\ probe.fn = "render_scheduled_actions"
  /\ probe.total_frames = 6
  /\ probe.actions = << ScheduledAction(4, NoteOff(60)),
                        ScheduledAction(0, NoteOn(60, 100)),
                        ScheduledAction(7, NoteOn(60, 100)) >>
  /\ probe.result.ok
  /\ probe.result.value.steps =
       << apply_midi_action(0, NoteOn(60, 100), 0),
          synth_render(0, 4),
          apply_midi_action(0, NoteOff(60), 4),
          synth_render(4, 6) >>

\* the render calls among the steps, in the order they were made
RenderCalls(steps) == SelectSeq(steps, LAMBDA step : step.kind = "render")

\* C21: a successful render of total_frames > 0 frames renders each frame
\* index of [0, total_frames) exactly once, in increasing order without gap or
\* overlap, and returns exactly 2 * total_frames samples.
EveryFrameRenderedOnce ==
  (probe.fn = "render_scheduled_actions" /\ probe.total_frames > 0
     /\ probe.result.ok)
    => LET calls == RenderCalls(probe.result.value.steps)
       IN  /\ probe.result.value.len = 2 * probe.total_frames
           /\ \A f \in 0..(probe.total_frames - 1) :
                Cardinality({i \in DOMAIN calls :
                               calls[i].from <= f /\ f < calls[i].to}) = 1
           /\ \A i \in DOMAIN calls :
                /\ 0 <= calls[i].from
                /\ calls[i].from < calls[i].to
                /\ calls[i].to <= probe.total_frames
           /\ \A i, j \in DOMAIN calls : i < j => calls[i].to <= calls[j].from

\* C21 witness: six frames with actions at frames 2 and 4 were rendered as
\* [0, 2), [2, 4) and [4, 6), twelve samples
SixFramesInThreeRenders ==
  /\ probe.fn = "render_scheduled_actions"
  /\ probe.total_frames = 6
  /\ probe.actions = << ScheduledAction(2, NoteOn(60, 100)),
                        ScheduledAction(4, NoteOff(60)) >>
  /\ probe.result.ok
  /\ probe.result.value.len = 12
  /\ RenderCalls(probe.result.value.steps)
       = << synth_render(0, 2), synth_render(2, 4), synth_render(4, 6) >>

\* the pairs <<frame, action>> of a list of scheduled actions
FramedActions(actions) == [i \in DOMAIN actions |-> <<actions[i].frame, actions[i].action>>]

\* the pairs <<cursor, action>> of the actions the synthesizer received
FramedApplies(steps) ==
  LET applied == SelectSeq(steps, LAMBDA step : step.kind = "apply")
  IN  [i \in DOMAIN applied |-> <<applied[i].cursor, applied[i].action>>]

\* how often x occurs in the sequence s
Count(s, x) == Cardinality({i \in DOMAIN s : s[i] = x})

\* C22: an action whose frame is greater than total_frames is never applied:
\* it is removed, not moved to total_frames; every action with
\* frame <= total_frames, frame = total_frames included, is kept and applied
\* at its own frame.
ActionsBeyondEndDropped ==
  (probe.fn = "render_scheduled_actions" /\ probe.total_frames > 0
     /\ probe.result.ok)
    => LET given == FramedActions(probe.actions)
           applied == FramedApplies(probe.result.value.steps)
       IN  /\ \A i \in DOMAIN applied : applied[i][1] <= probe.total_frames
           /\ \A i \in DOMAIN given :
                IF given[i][1] <= probe.total_frames
                THEN Count(applied, given[i]) = Count(given, given[i])
                ELSE Count(applied, given[i]) = 0
           /\ \A i \in DOMAIN applied :
                Count(given, applied[i]) = Count(applied, applied[i])

\* C22 witness: of a render of 4 frames the action at frame 7 was dropped and
\* the action at frame 4 was applied after the last frame
ActionAtEndKept ==
  /\ probe.fn = "render_scheduled_actions"
  /\ probe.total_frames = 4
  /\ probe.actions = << ScheduledAction(7, NoteOn(60, 100)),
                        ScheduledAction(4, NoteOff(60)),
                        ScheduledAction(0, NoteOn(60, 100)) >>
  /\ probe.result.ok
  /\ probe.result.value.steps =
       << apply_midi_action(0, NoteOn(60, 100), 0),
          synth_render(0, 4),
          apply_midi_action(0, NoteOff(60), 4) >>

\* the render trace of the scheduler call the probe made, if it made one
SchedulerTrace ==
  IF probe = Idle THEN NoTrace
  ELSE IF probe.fn \in {"render_soundfont_note_samples",
                        "render_soundfont_song_samples"} THEN probe.trace
  ELSE IF probe.fn = "play_note" THEN probe.out.trace
  ELSE NoTrace

\* C23: every action the note and song schedulers hand to the synthesizer has
\* a key in [0, 127] and, for a NoteOn, a velocity in [1, 127], for every
\* value of the u8 note and velocity arguments and every song.
AppliedKeysAndVelocitiesInMidiRange ==
  (SchedulerTrace.result.ok /\ SchedulerTrace.result.value.built)
    => \A step \in {SchedulerTrace.result.value.steps[i] :
                      i \in DOMAIN SchedulerTrace.result.value.steps} :
         step.kind = "apply"
           => /\ step.action.key \in 0..127
              /\ step.action.type = "NoteOn" => step.action.velocity \in 1..127

\* the schedule of the probed call, when it is a schedule of the note
\* scheduler or of the song scheduler at a sample rate in [16000, 192000]
NoSchedule == [built |-> FALSE, actions |-> <<>>, total_frames |-> 0, release_frames |-> 0]

ProbedSchedule ==
  IF probe = Idle THEN NoSchedule
  ELSE IF probe.fn = "render_soundfont_note_samples"
          /\ probe.sample_rate >= 16000 /\ probe.sample_rate <= 192000
  THEN [built |-> TRUE,
        actions |-> probe.trace.call.actions,
        total_frames |-> probe.trace.call.total_frames,
        release_frames |-> ms_to_frames(Max(probe.release_duration_ms, 160),
                                        probe.sample_rate)]
  ELSE IF probe.fn \in {"render_soundfont_song_samples", "song_schedule"}
          /\ probe.sample_rate >= 16000 /\ probe.sample_rate <= 192000
          /\ probe.schedule.actions # <<>>
  THEN [built |-> TRUE,
        actions |-> probe.schedule.actions,
        total_frames |-> probe.schedule.total_frames,
        release_frames |-> ms_to_frames(Max(probe.release_duration_ms, 240),
                                        probe.sample_rate)]
  ELSE NoSchedule

\* each NoteOn has a NoteOff for its key on a later frame, before the release
\* tail; no action lies beyond total_frames
ReleasedBeforeTail(schedule) ==
  LET actions == schedule.actions
  IN  /\ \A i \in DOMAIN actions : actions[i].frame <= schedule.total_frames
      /\ \A i \in DOMAIN actions :
           actions[i].action.type = "NoteOn"
             => \E j \in DOMAIN actions :
                  /\ actions[j].action.type = "NoteOff"
                  /\ actions[j].action.key = actions[i].action.key
                  /\ actions[j].frame > actions[i].frame
                  /\ actions[j].frame
                       <= schedule.total_frames - schedule.release_frames

\* C24 as stated: in every schedule of the note scheduler or the song scheduler
\* at a sample rate in [16000, 192000], each NoteOn at frame f has a NoteOff
\* for the same key at a frame strictly greater than f and at most
\* total_frames minus the release frames, and no action is beyond total_frames.
EveryNoteOnReleasedBeforeTail ==
  ProbedSchedule.built => ReleasedBeforeTail(ProbedSchedule)

\* C24: the same holds whenever total_frames is below usize::MAX, that is when
\* no frame count has saturated; a note whose start frame is usize::MAX has
\* its NoteOff on that same frame; in every case no action lies beyond
\* total_frames, so the frame filter drops none, and in a render that
\* succeeded no key is held when the release tail begins.
NoteOnReleasedUnlessSaturated ==
  ProbedSchedule.built
    => LET actions == ProbedSchedule.actions
           total_frames == ProbedSchedule.total_frames
       IN  /\ \A i \in DOMAIN actions : actions[i].frame <= total_frames
           /\ total_frames < USIZE_MAX => ReleasedBeforeTail(ProbedSchedule)
           /\ \A i \in DOMAIN actions :
                (actions[i].action.type = "NoteOn" /\ actions[i].frame = USIZE_MAX)
                  => /\ total_frames = USIZE_MAX
                     /\ actions[i + 1] = ScheduledAction(USIZE_MAX,
                                                         NoteOff(actions[i].action.key))
           /\ (probe.fn # "song_schedule" /\ probe.trace.result.ok)
                => /\ Len(probe.trace.result.value.sorted) = Len(actions)
                   /\ HeldAfterFrame(probe.trace.result.value.steps, 1,
                                     total_frames - ProbedSchedule.release_frames,
                                     {}) = {}

\* C24 witness: a song of two overlapping events at 48000 Hz, three notes, each
\* released later than it was struck and before the release tail, which begins
\* at the last NoteOff
OverlappingNotesReleased ==
  /\ probe.fn = "render_soundfont_song_samples"
  /\ probe.sample_rate = 48000
  /\ probe.song = Song(<<120, 1>>, 96,
                       << Event(<<0, 1>>, <<1, 1>>, <<60, 64>>, None),
                          Event(<<0, 1>>, <<1, 4>>, <<64>>, Some(127)) >>)
  /\ probe.release_duration_ms = 720
  /\ Len(probe.schedule.actions) = 6
  /\ probe.trace.result.ok
  /\ ReleasedBeforeTail(ProbedSchedule)
  /\ probe.schedule.total_frames - ProbedSchedule.release_frames
       = MaxNoteOffFrame(probe.schedule.actions)
  /\ probe.schedule.actions[5].frame = 0
  /\ probe.schedule.actions[6].frame = 6000
  /\ probe.schedule.actions[2].frame = 24000

\* a start_playback call that returns early: no prepared song, or a prepared
\* song without events
FailedStart ==
  /\ probe.fn = "start_playback"
  /\ \/ probe.self.prepared_song = None
     \/ probe.self.prepared_song[1].events = <<>>

\* C25: whenever playback is active after any sequence of messages, a
\* prepared song exists and has at least one event; start_playback with no
\* prepared song, or with a prepared song without events, leaves playback,
\* the held notes and the last timer score unchanged
ActivePlaybackHasPreparedEvents ==
  /\ (Launched /\ app.playback # None)
       => /\ app.prepared_song # None
          /\ Len(app.prepared_song[1].events) >= 1
  /\ FailedStart
       => /\ probe.result.playback = probe.self.playback
          /\ probe.result.held_notes = probe.self.held_notes
          /\ probe.result.last_timer_score = probe.self.last_timer_score

\* C25 witness: start_playback called during a run, with a note held and a
\* last timer score, on a prepared song without events
FailedStartDuringPlayback ==
  /\ FailedStart
  /\ probe.self.prepared_song # None
  /\ probe.self.playback # None
  /\ probe.self.held_notes = {72}
  /\ probe.self.last_timer_score # None
  /\ probe.result = probe.self

\* the indices 0 .. n - 1 in order
Indices(n) == [k \in 1..n |-> k - 1]

\* C26: on every Tick of an Autoplay run the events triggered are the next
\* ones in index order, each due (at_seconds <= elapsed) and none triggered
\* before; next_event_index moves up by their number; the run ends on the
\* tick with elapsed > duration_seconds + 0.8, and then every prepared event
\* has been triggered exactly once
AutoplayTriggersEachEventOnceInOrder ==
  [][(AutoplayTick /\ AutoplayRun(app))
       => LET playback == app.playback[1]
              events == app.prepared_song[1].events
              elapsed == duration_since(clock', playback.started_at)
              fired == gui'.effects.triggered
          IN  /\ gui.played = Indices(playback.next_event_index)
              /\ fired = [k \in 1..Len(fired) |-> playback.next_event_index + k - 1]
              /\ playback.next_event_index + Len(fired) <= Len(events)
              /\ \A k \in 1..Len(fired) : events[fired[k] + 1].at_seconds <= elapsed
              /\ app'.playback # None
                   => /\ app'.playback[1].next_event_index
                           = playback.next_event_index + Len(fired)
                      /\ gui'.played = Indices(app'.playback[1].next_event_index)
              /\ app'.playback = None
                   <=> elapsed > app.prepared_song[1].duration_seconds + 80
              /\ app'.playback = None
                   => gui.played \o fired = Indices(Len(events))]_vars

\* C26 witness: the tick 1.42 s into the two-event song, after a tick at
\* 0.12 s that triggered the first event: it triggers the second event, due
\* since 0.2 s, and ends the run
AutoplayEndsAfterLastEvent ==
  /\ Launched
  /\ app.play_mode = "Autoplay"
  /\ app.selected_song = Some(0)
  /\ app.playback = None
  /\ clock = 142
  /\ gui.effects.triggered = <<1>>

\* a note input of a Tutorial run has moved the tutorial to the next event:
\* the index is one higher, or the run has ended at the last event
TutorialAdvanced ==
  \/ app'.playback = None
  \/ /\ app'.playback[1].tutorial_event_index
          = app.playback[1].tutorial_event_index + 1
     /\ app'.playback[1].tutorial_matched = {}

\* the note input has changed the index, or has ended the run
TutorialIndexChanged ==
  \/ app'.playback = None
  \/ app'.playback[1].tutorial_event_index # app.playback[1].tutorial_event_index

\* the note input has left the tutorial at its event, with its matched set
TutorialStayed ==
  /\ app'.playback # None
  /\ app'.playback[1].tutorial_event_index = app.playback[1].tutorial_event_index
  /\ app'.playback[1].tutorial_matched = app.playback[1].tutorial_matched

\* C27: with only_advance_on_correct_note, a note input moves the tutorial to
\* the next event (index + 1, matched set cleared) only when the note belongs
\* to the current event and every distinct note of the current event has been
\* pressed since the index last changed, and a note that is not in the current
\* event leaves the index and the matched set unchanged; without the option, a
\* note that is not in the current event moves the tutorial to the next event
TutorialAdvancesOnCompletedEvent ==
  [][(TutorialNote /\ TutorialRun(app))
       => \A midi_note \in ClickNotes :
            NoteInput(app, midi_note, clock)
              => IF app.tutorial_options.only_advance_on_correct_note
                 THEN /\ TutorialIndexChanged
                           => /\ TutorialAdvanced
                              /\ midi_note \in CurrentNotes(app)
                              /\ CurrentNotes(app) \subseteq gui.pressed \cup {midi_note}
                      /\ midi_note \notin CurrentNotes(app) => TutorialStayed
                 ELSE midi_note \notin CurrentNotes(app) => TutorialAdvanced]_vars

\* the note input raises tutorial_event_index: the note completes the matched
\* set of the current event, or it is a wrong note and wrong notes advance
RaisesTutorialIndex(self, midi_note) ==
  IF midi_note \in CurrentNotes(self)
  THEN Cardinality(self.playback[1].tutorial_matched \cup {midi_note})
         >= Cardinality(CurrentNotes(self))
  ELSE ~self.tutorial_options.only_advance_on_correct_note

\* C28: while a Tutorial run is active, tutorial_event_index is less than the
\* number of prepared events; a note input ends the run exactly when it raises
\* the index to the number of events, and a tick never ends it; if the notes
\* the tutorial waits for go on being pressed, the run ends
TutorialEndsAtLastEvent ==
  /\ [](TutorialRun(app)
          => app.playback[1].tutorial_event_index
               < Len(app.prepared_song[1].events))
  /\ [][(TutorialNote /\ TutorialRun(app))
          => \A midi_note \in ClickNotes :
               NoteInput(app, midi_note, clock)
                 => LET index == app.playback[1].tutorial_event_index
                        raised == IF RaisesTutorialIndex(app, midi_note)
                                  THEN index + 1 ELSE index
                    IN  /\ app'.playback = None
                             <=> raised = Len(app.prepared_song[1].events)
                        /\ app'.playback # None
                             => app'.playback[1].tutorial_event_index = raised]_vars
  /\ [][(TutorialTick /\ TutorialRun(app))
          => /\ app'.playback # None
             /\ app'.playback[1].tutorial_event_index
                  = app.playback[1].tutorial_event_index]_vars
  /\ (TutorialRun(app) ~> (Launched /\ app.playback = None))

\* C28 witness: the second event of the two-event song was the last one, and
\* its note has ended the run
TutorialCompletedByLastNote ==
  /\ Launched
  /\ app.selected_song = Some(0)
  /\ app.play_mode = "Tutorial"
  /\ app.playback = None
  /\ gui.completed = "Tutorial"
  /\ gui.effects.play_out_loud

\* the distance in time of expected note number index (0-based) of the
\* prepared song from cursor
TimeDistance(self, index, cursor) ==
  Abs(self.prepared_song[1].expected_notes[index + 1].at_seconds - cursor)

\* the expected notes a Timer note input can hit: same pitch, not matched
\* yet, within 0.18 s of cursor
Hittable(self, midi_note, cursor) ==
  { index \in 0..(Len(self.prepared_song[1].expected_notes) - 1) :
      /\ self.prepared_song[1].expected_notes[index + 1].midi_note = midi_note
      /\ index \notin self.playback[1].matched_note_indices
      /\ TimeDistance(self, index, cursor) <= 18 }

\* C29: in a Timer run hit_notes = perfect_hits + good_hits = the number of
\* matched indices <= expected_notes, the matched indices being indices of
\* expected notes; every note input changes exactly one counter: it adds one
\* hit, matching a hittable expected note at the smallest distance (perfect
\* within 0.07 s, good otherwise), or with nothing hittable it adds one wrong
\* note
TimerScoreCountsEachInputOnce ==
  /\ [](TimerRun(app)
          => LET playback == app.playback[1]
             IN  /\ playback.score.hit_notes
                      = playback.score.perfect_hits + playback.score.good_hits
                 /\ playback.score.hit_notes
                      = Cardinality(playback.matched_note_indices)
                 /\ playback.score.hit_notes <= playback.score.expected_notes
                 /\ playback.score.expected_notes
                      = Len(app.prepared_song[1].expected_notes)
                 /\ playback.matched_note_indices
                      \subseteq 0..(playback.score.expected_notes - 1))
  /\ [][(TimerNote /\ TimerRun(app))
          => /\ TimerRun(app')
             /\ \A midi_note \in ClickNotes :
                  NoteInput(app, midi_note, clock')
                    => LET before == app.playback[1]
                           after  == app'.playback[1]
                           hittable == Hittable(app, midi_note, clock')
                           added == after.matched_note_indices \ before.matched_note_indices
                       IN  IF hittable = {}
                           THEN /\ after.score = [before.score EXCEPT !.wrong_notes = @ + 1]
                                /\ added = {}
                           ELSE /\ \E index \in hittable :
                                     /\ added = {index}
                                     /\ \A other \in hittable :
                                          TimeDistance(app, index, clock')
                                            <= TimeDistance(app, other, clock')
                                     /\ after.score =
                                          IF TimeDistance(app, index, clock') <= 7
                                          THEN [before.score EXCEPT !.hit_notes = @ + 1,
                                                                 !.perfect_hits = @ + 1]
                                          ELSE [before.score EXCEPT !.hit_notes = @ + 1,
                                                                 !.good_hits = @ + 1]
                                /\ before.matched_note_indices
                                     \subseteq after.matched_note_indices]_vars

\* C29 witness: a Timer run of the two-event song with its three expected
\* notes hit, two of them perfect and one good, and one wrong note
PerfectGoodAndWrongNotes ==
  /\ TimerRun(app)
  /\ app.playback[1].score.expected_notes = 3
  /\ app.playback[1].score.perfect_hits = 2
  /\ app.playback[1].score.good_hits = 1
  /\ app.playback[1].score.wrong_notes = 1
  /\ app.playback[1].matched_note_indices = {0, 1, 2}

\* C30: last_timer_score is set only by the Tick that completes a Timer run,
\* more than duration_seconds + 1.2 s after its start: playback becomes None
\* and the stored score has hit_notes + missed_notes = expected_notes;
\* start_playback (on a prepared song) and select_song reset it to None;
\* StopPlayback and the completion of a Tutorial or Autoplay run leave it as
\* it is
LastTimerScoreSetByTimerCompletion ==
  /\ [][(Launched /\ app'.last_timer_score # None
           /\ app'.last_timer_score # app.last_timer_score)
          => /\ Tick
             /\ TimerRun(app)
             /\ duration_since(clock', app.playback[1].started_at)
                  > app.prepared_song[1].duration_seconds + 120
             /\ app'.playback = None
             /\ gui'.completed = "Timer"
             /\ LET score == app'.last_timer_score[1]
                IN  /\ score.hit_notes + score.missed_notes = score.expected_notes
                    /\ score = [app.playback[1].score EXCEPT
                                  !.missed_notes = score.expected_notes
                                                     - score.hit_notes]]_vars
  /\ [][(Tick /\ TimerRun(app)
           /\ duration_since(clock', app.playback[1].started_at)
                > app.prepared_song[1].duration_seconds + 120)
          => app'.last_timer_score # None /\ app'.playback = None]_vars
  /\ [][((StartPlayback \/ RestartPlayback) /\ app.prepared_song # None)
          => app'.last_timer_score = None /\ app'.playback # None]_vars
  /\ [][SelectSong => app'.last_timer_score = None]_vars
  /\ [][StopPlayback
          => app'.last_timer_score = app.last_timer_score
               /\ app'.playback = None]_vars
  /\ [][(Launched /\ gui'.completed \in {"Tutorial", "Autoplay"})
          => app'.last_timer_score = app.last_timer_score
               /\ app'.playback = None]_vars

\* C30 witness: the Tick 1.5 s into a Timer run of the two-event song (0.24 s
\* long) has ended the run and stored its score: one note hit, two missed
TimerCompletedWithScore ==
  /\ Launched
  /\ app.playback = None
  /\ clock = 150
  /\ gui.completed = "Timer"
  /\ app.last_timer_score # None
  /\ app.last_timer_score[1].expected_notes = 3
  /\ app.last_timer_score[1].hit_notes = 1
  /\ app.last_timer_score[1].missed_notes = 2

====
